---- MODULE Spec2Model ----
(***************************************************************************)
(* Cloud Spanner frontend of sqlc (internal/engine/spanner): the function  *)
(* catalog built by defaultSchema (stdlib.go), the dialect-AST translator  *)
(* cc.convert (convert.go), and the statement splitter and Parse           *)
(* (parse.go).                                                             *)
(***************************************************************************)
EXTENDS Integers, Sequences, FiniteSets, TLC

VARIABLES
    funcs,          \* s.Funcs of the schema under construction (stdlib.go)
    baseIdx,        \* position of the range loop over baseFuncs
    schemaPc,       \* "seeded" while the loop runs, "returned" after return s
    node,           \* the dialect AST handed to converter.convert (parse.go:153)
    positionOffset, \* cc.positionOffset
    paramCount,     \* cc.paramCount
    paramMap,       \* cc.paramMap: name -> index
    paramsByNum,    \* cc.paramsByNum: index -> name
    out,            \* the node returned by converter.convert
    convPc,         \* "parsed", then "appended", "skipped" or "panicked"
    content,        \* the file handed to Parse, as its sequence of lexemes
    lexIdx,         \* the lexeme the lexer stands at
    currentComments,\* splitStatements: comments of the statement being read
    stmtStartPos,   \* splitStatements: where the statement begins, -1 if unset
    firstTokenPos,  \* splitStatements: where its first token begins, -1 if unset
    statements,     \* splitStatements: the statements found so far
    stmtIdx,        \* Parse: position of the range loop over statements
    stmts,          \* Parse: the raw statements appended so far
    parsePc,        \* "splitting", "parsing", then "returned" or "error"
    err,            \* the error handed to convertError
    errOut,         \* the error convertError returns
    calls,          \* the locals of each of two concurrent calls of Parse
    word,           \* the string handed to IsReservedKeyword
    reserved,       \* what IsReservedKeyword returns
    params          \* the slice ExtractParameters returns

schemaVars == <<funcs, baseIdx, schemaPc>>

convVars == <<node, positionOffset, paramCount, paramMap, paramsByNum, out, convPc>>

parseVars == <<content, lexIdx, currentComments, stmtStartPos, firstTokenPos,
               statements, stmtIdx, stmts, parsePc>>

vars == <<funcs, baseIdx, schemaPc, node, positionOffset, paramCount, paramMap,
          paramsByNum, out, convPc, content, lexIdx, currentComments,
          stmtStartPos, firstTokenPos, statements, stmtIdx, stmts, parsePc,
          err, errOut, calls, word, reserved, params>>

utilVars == <<calls, word, reserved, params>>

\* the variables a step of defaultSchema leaves alone
notSchemaVars == <<convVars, parseVars, err, errOut, utilVars>>

\* the variables a step of the translator leaves alone
notConvVars == <<schemaVars, parseVars, err, errOut, utilVars>>

\* the variables a step of Parse leaves alone
notParseVars == <<schemaVars, convVars, err, errOut, utilVars>>

\* Go's nil pointer / nil interface, for dialect nodes and translated nodes alike
Nil == [kind |-> "nil"]

\* a nil *string; a non-nil *string pointing at s is <<s>>
NoStr == <<>>

\* convertError not called
ErrIdle ==
    /\ err = [type |-> "idle"]
    /\ errOut = [type |-> "idle"]

\* no second call of Parse, no call of IsReservedKeyword or ExtractParameters
UtilIdle ==
    /\ calls = <<>>
    /\ word = ""
    /\ reserved = <<>>
    /\ params = <<>>

\* no translation in progress
ConvIdle ==
    /\ node = Nil
    /\ positionOffset = 0
    /\ paramCount = 0
    /\ paramMap = <<>>
    /\ paramsByNum = <<>>
    /\ out = Nil
    /\ convPc = "idle"

\* no catalog under construction
SchemaIdle ==
    /\ funcs = <<>>
    /\ baseIdx = 0
    /\ schemaPc = "idle"


\* no file being parsed
ParseIdle ==
    /\ content = <<>>
    /\ lexIdx = 0
    /\ currentComments = <<>>
    /\ stmtStartPos = -1
    /\ firstTokenPos = -1
    /\ statements = <<>>
    /\ stmtIdx = 0
    /\ stmts = <<>>
    /\ parsePc = "idle"

(***************************************************************************)
(* Function catalog (stdlib.go)                                            *)
(***************************************************************************)

\* catalog.Function literal: Name, Args (argument types), ReturnType,
\* ReturnTypeNullable.  A function name is the sequence of its dot-separated
\* segments: "NET.HOST" is <<"NET", "HOST">>.
Fn(name, args, ret, nullable) ==
    [Name |-> name, Args |-> args, ReturnType |-> ret, ReturnTypeNullable |-> nullable]

\* the composite literal assigned to s.Funcs, in source order
SeedFuncs == <<
    Fn(<<"ABS">>, <<"int64">>, "int64", FALSE),
    Fn(<<"ABS">>, <<"float64">>, "float64", FALSE),
    Fn(<<"ABS">>, <<"numeric">>, "numeric", FALSE),
    Fn(<<"CEIL">>, <<"float64">>, "float64", FALSE),
    Fn(<<"CEILING">>, <<"float64">>, "float64", FALSE),
    Fn(<<"FLOOR">>, <<"float64">>, "float64", FALSE),
    Fn(<<"ROUND">>, <<"float64">>, "float64", FALSE),
    Fn(<<"ROUND">>, <<"float64", "int64">>, "float64", FALSE),
    Fn(<<"SQRT">>, <<"float64">>, "float64", FALSE),
    Fn(<<"POW">>, <<"float64", "float64">>, "float64", FALSE),
    Fn(<<"MOD">>, <<"int64", "int64">>, "int64", FALSE),
    Fn(<<"LOG">>, <<"float64">>, "float64", FALSE),
    Fn(<<"LOG">>, <<"float64", "float64">>, "float64", FALSE),
    Fn(<<"LOG10">>, <<"float64">>, "float64", FALSE),
    Fn(<<"EXP">>, <<"float64">>, "float64", FALSE),
    Fn(<<"SIGN">>, <<"int64">>, "int64", FALSE),
    Fn(<<"SIGN">>, <<"float64">>, "int64", FALSE),
    Fn(<<"GREATEST">>, <<"any">>, "any", FALSE),
    Fn(<<"LEAST">>, <<"any">>, "any", FALSE),
    Fn(<<"CONCAT">>, <<"string", "string">>, "string", FALSE),
    Fn(<<"LENGTH">>, <<"string">>, "int64", FALSE),
    Fn(<<"LOWER">>, <<"string">>, "string", FALSE),
    Fn(<<"UPPER">>, <<"string">>, "string", FALSE),
    Fn(<<"SUBSTR">>, <<"string", "int64">>, "string", FALSE),
    Fn(<<"SUBSTR">>, <<"string", "int64", "int64">>, "string", FALSE),
    Fn(<<"TRIM">>, <<"string">>, "string", FALSE),
    Fn(<<"LTRIM">>, <<"string">>, "string", FALSE),
    Fn(<<"RTRIM">>, <<"string">>, "string", FALSE),
    Fn(<<"REPLACE">>, <<"string", "string", "string">>, "string", FALSE),
    Fn(<<"SPLIT">>, <<"string", "string">>, "array", FALSE),
    Fn(<<"STARTS_WITH">>, <<"string", "string">>, "bool", FALSE),
    Fn(<<"ENDS_WITH">>, <<"string", "string">>, "bool", FALSE),
    Fn(<<"STRPOS">>, <<"string", "string">>, "int64", FALSE),
    Fn(<<"REVERSE">>, <<"string">>, "string", FALSE),
    Fn(<<"FORMAT">>, <<"string">>, "string", FALSE),
    Fn(<<"REGEXP_CONTAINS">>, <<"string", "string">>, "bool", FALSE),
    Fn(<<"REGEXP_EXTRACT">>, <<"string", "string">>, "string", TRUE),
    Fn(<<"REGEXP_EXTRACT_ALL">>, <<"string", "string">>, "array", FALSE),
    Fn(<<"REGEXP_REPLACE">>, <<"string", "string", "string">>, "string", FALSE),
    Fn(<<"CURRENT_DATE">>, <<>>, "date", FALSE),
    Fn(<<"CURRENT_TIMESTAMP">>, <<>>, "timestamp", FALSE),
    Fn(<<"DATE">>, <<"timestamp">>, "date", FALSE),
    Fn(<<"DATE">>, <<"int64", "int64", "int64">>, "date", FALSE),
    Fn(<<"TIMESTAMP">>, <<"string">>, "timestamp", FALSE),
    Fn(<<"EXTRACT">>, <<"any", "date">>, "int64", FALSE),
    Fn(<<"DATE_ADD">>, <<"date", "interval">>, "date", FALSE),
    Fn(<<"DATE_SUB">>, <<"date", "interval">>, "date", FALSE),
    Fn(<<"DATE_DIFF">>, <<"date", "date", "any">>, "int64", FALSE),
    Fn(<<"TIMESTAMP_ADD">>, <<"timestamp", "interval">>, "timestamp", FALSE),
    Fn(<<"TIMESTAMP_SUB">>, <<"timestamp", "interval">>, "timestamp", FALSE),
    Fn(<<"EXTRACT">>, <<"interval">>, "int64", FALSE),
    Fn(<<"TIMESTAMP_DIFF">>, <<"timestamp", "timestamp", "any">>, "int64", FALSE),
    Fn(<<"FORMAT_DATE">>, <<"string", "date">>, "string", FALSE),
    Fn(<<"FORMAT_TIMESTAMP">>, <<"string", "timestamp">>, "string", FALSE),
    Fn(<<"PARSE_DATE">>, <<"string", "string">>, "date", FALSE),
    Fn(<<"PARSE_TIMESTAMP">>, <<"string", "string">>, "timestamp", FALSE),
    Fn(<<"ARRAY_LENGTH">>, <<"array">>, "int64", FALSE),
    Fn(<<"ARRAY_TO_STRING">>, <<"array", "string">>, "string", FALSE),
    Fn(<<"ARRAY_CONCAT">>, <<"array">>, "array", FALSE),
    Fn(<<"ARRAY_REVERSE">>, <<"array">>, "array", FALSE),
    Fn(<<"COUNT">>, <<"any">>, "int64", FALSE),
    Fn(<<"SUM">>, <<"int64">>, "int64", FALSE),
    Fn(<<"SUM">>, <<"float64">>, "float64", FALSE),
    Fn(<<"AVG">>, <<"int64">>, "float64", FALSE),
    Fn(<<"AVG">>, <<"float64">>, "float64", FALSE),
    Fn(<<"MIN">>, <<"any">>, "any", FALSE),
    Fn(<<"MAX">>, <<"any">>, "any", FALSE),
    Fn(<<"STRING_AGG">>, <<"string">>, "string", FALSE),
    Fn(<<"STRING_AGG">>, <<"string", "string">>, "string", FALSE),
    Fn(<<"ARRAY_AGG">>, <<"any">>, "array", FALSE),
    Fn(<<"COUNT_IF">>, <<"bool">>, "int64", FALSE),
    Fn(<<"STDDEV">>, <<"float64">>, "float64", FALSE),
    Fn(<<"STDDEV_POP">>, <<"float64">>, "float64", FALSE),
    Fn(<<"STDDEV_SAMP">>, <<"float64">>, "float64", FALSE),
    Fn(<<"VARIANCE">>, <<"float64">>, "float64", FALSE),
    Fn(<<"VAR_POP">>, <<"float64">>, "float64", FALSE),
    Fn(<<"VAR_SAMP">>, <<"float64">>, "float64", FALSE),
    Fn(<<"CAST">>, <<"any">>, "any", FALSE),
    Fn(<<"SAFE_CAST">>, <<"any">>, "any", FALSE),
    Fn(<<"SAFE_ADD">>, <<"int64", "int64">>, "int64", TRUE),
    Fn(<<"SAFE_ADD">>, <<"float64", "float64">>, "float64", TRUE),
    Fn(<<"SAFE_ADD">>, <<"numeric", "numeric">>, "numeric", TRUE),
    Fn(<<"SAFE_SUBTRACT">>, <<"int64", "int64">>, "int64", TRUE),
    Fn(<<"SAFE_SUBTRACT">>, <<"float64", "float64">>, "float64", TRUE),
    Fn(<<"SAFE_SUBTRACT">>, <<"numeric", "numeric">>, "numeric", TRUE),
    Fn(<<"SAFE_MULTIPLY">>, <<"int64", "int64">>, "int64", TRUE),
    Fn(<<"SAFE_MULTIPLY">>, <<"float64", "float64">>, "float64", TRUE),
    Fn(<<"SAFE_MULTIPLY">>, <<"numeric", "numeric">>, "numeric", TRUE),
    Fn(<<"SAFE_DIVIDE">>, <<"float64", "float64">>, "float64", TRUE),
    Fn(<<"SAFE_DIVIDE">>, <<"int64", "int64">>, "float64", TRUE),
    Fn(<<"SAFE_DIVIDE">>, <<"numeric", "numeric">>, "numeric", TRUE),
    Fn(<<"SAFE_NEGATE">>, <<"int64">>, "int64", TRUE),
    Fn(<<"SAFE_NEGATE">>, <<"float64">>, "float64", TRUE),
    Fn(<<"SAFE_NEGATE">>, <<"numeric">>, "numeric", TRUE),
    Fn(<<"SAFE", "SUBSTR">>, <<"string", "int64">>, "string", TRUE),
    Fn(<<"SAFE", "SUBSTR">>, <<"string", "int64", "int64">>, "string", TRUE),
    Fn(<<"IF">>, <<"bool", "any", "any">>, "any", FALSE),
    Fn(<<"IFNULL">>, <<"any", "any">>, "any", FALSE),
    Fn(<<"NULLIF">>, <<"any", "any">>, "any", FALSE),
    Fn(<<"COALESCE">>, <<"any">>, "any", FALSE),
    Fn(<<"PENDING_COMMIT_TIMESTAMP">>, <<>>, "timestamp", FALSE),
    Fn(<<"GENERATE_UUID">>, <<>>, "string", FALSE),
    Fn(<<"FARM_FINGERPRINT">>, <<"string">>, "int64", FALSE),
    Fn(<<"SHA1">>, <<"bytes">>, "bytes", FALSE),
    Fn(<<"SHA256">>, <<"bytes">>, "bytes", FALSE),
    Fn(<<"SHA512">>, <<"bytes">>, "bytes", FALSE),
    Fn(<<"MD5">>, <<"bytes">>, "bytes", FALSE),
    Fn(<<"TO_BASE64">>, <<"bytes">>, "string", FALSE),
    Fn(<<"FROM_BASE64">>, <<"string">>, "bytes", FALSE),
    Fn(<<"TO_HEX">>, <<"bytes">>, "string", FALSE),
    Fn(<<"FROM_HEX">>, <<"string">>, "bytes", FALSE),
    Fn(<<"JSON_EXTRACT">>, <<"json", "string">>, "json", FALSE),
    Fn(<<"JSON_EXTRACT_SCALAR">>, <<"json", "string">>, "string", FALSE),
    Fn(<<"JSON_QUERY">>, <<"json", "string">>, "json", FALSE),
    Fn(<<"JSON_VALUE">>, <<"json", "string">>, "string", FALSE),
    Fn(<<"TO_JSON">>, <<"any">>, "json", FALSE),
    Fn(<<"TO_JSON_STRING">>, <<"any">>, "string", FALSE),
    Fn(<<"PARSE_JSON">>, <<"string">>, "json", FALSE),
    Fn(<<"JSON_EXTRACT_ARRAY">>, <<"json", "string">>, "array", FALSE),
    Fn(<<"JSON_EXTRACT_STRING_ARRAY">>, <<"json", "string">>, "array", FALSE),
    Fn(<<"ROW_NUMBER">>, <<>>, "int64", FALSE),
    Fn(<<"RANK">>, <<>>, "int64", FALSE),
    Fn(<<"DENSE_RANK">>, <<>>, "int64", FALSE),
    Fn(<<"PERCENT_RANK">>, <<>>, "float64", FALSE),
    Fn(<<"CUME_DIST">>, <<>>, "float64", FALSE),
    Fn(<<"NTILE">>, <<"int64">>, "int64", FALSE),
    Fn(<<"LAG">>, <<"any">>, "any", FALSE),
    Fn(<<"LEAD">>, <<"any">>, "any", FALSE),
    Fn(<<"FIRST_VALUE">>, <<"any">>, "any", FALSE),
    Fn(<<"LAST_VALUE">>, <<"any">>, "any", FALSE),
    Fn(<<"NTH_VALUE">>, <<"any", "int64">>, "any", FALSE),
    Fn(<<"BIT_AND">>, <<"int64", "int64">>, "int64", FALSE),
    Fn(<<"BIT_OR">>, <<"int64", "int64">>, "int64", FALSE),
    Fn(<<"BIT_XOR">>, <<"int64", "int64">>, "int64", FALSE),
    Fn(<<"BIT_NOT">>, <<"int64">>, "int64", FALSE),
    Fn(<<"BIT_COUNT">>, <<"int64">>, "int64", FALSE),
    Fn(<<"SAFE_ADD">>, <<"int64", "int64">>, "int64", TRUE),
    Fn(<<"SAFE_ADD">>, <<"numeric", "numeric">>, "numeric", TRUE),
    Fn(<<"SAFE_SUBTRACT">>, <<"int64", "int64">>, "int64", TRUE),
    Fn(<<"SAFE_SUBTRACT">>, <<"numeric", "numeric">>, "numeric", TRUE),
    Fn(<<"SAFE_MULTIPLY">>, <<"int64", "int64">>, "int64", TRUE),
    Fn(<<"SAFE_MULTIPLY">>, <<"numeric", "numeric">>, "numeric", TRUE),
    Fn(<<"SAFE_DIVIDE">>, <<"float64", "float64">>, "float64", TRUE),
    Fn(<<"SAFE_DIVIDE">>, <<"numeric", "numeric">>, "numeric", TRUE),
    Fn(<<"SAFE_NEGATE">>, <<"int64">>, "int64", TRUE),
    Fn(<<"SAFE_NEGATE">>, <<"numeric">>, "numeric", TRUE),
    Fn(<<"NET", "IPV4_TO_INT64">>, <<"string">>, "int64", FALSE),
    Fn(<<"NET", "INT64_TO_IPV4">>, <<"int64">>, "string", FALSE),
    Fn(<<"NET", "IP_FROM_STRING">>, <<"string">>, "bytes", FALSE),
    Fn(<<"NET", "IP_TO_STRING">>, <<"bytes">>, "string", FALSE),
    Fn(<<"NET", "HOST">>, <<"string">>, "string", FALSE),
    Fn(<<"NET", "PUBLIC_SUFFIX">>, <<"string">>, "string", FALSE),
    Fn(<<"NET", "REG_DOMAIN">>, <<"string">>, "string", FALSE)
>>

\* the key set of the aggregates map of isAggregateFunction
Aggregates ==
    { "AVG", "COUNT", "MAX", "MIN", "SUM", "STRING_AGG", "ARRAY_AGG",
      "BIT_AND", "BIT_OR", "BIT_XOR", "LOGICAL_AND", "LOGICAL_OR",
      "STDDEV", "STDDEV_POP", "STDDEV_SAMP", "VARIANCE", "VAR_POP", "VAR_SAMP" }

isAggregateFunction(name) == Len(name) = 1 /\ name[1] \in Aggregates

\* the first segments of the seed list's names whose first four bytes spell SAFE
SafeSegments ==
    { "SAFE", "SAFE_CAST", "SAFE_ADD", "SAFE_SUBTRACT", "SAFE_MULTIPLY",
      "SAFE_DIVIDE", "SAFE_NEGATE" }

\* len(fn.Name) >= 4 && fn.Name[:4] == "SAFE"
HasSafePrefix(name) == Head(name) \in SafeSegments

\* "SAFE." + fn.Name
SafeName(name) == <<"SAFE">> \o name

\* safeFn with the nullable flag copied from the base entry instead of set
SafeFn_keepsNullable(fn) ==
    [Name |-> SafeName(fn.Name), Args |-> fn.Args, ReturnType |-> fn.ReturnType,
     ReturnTypeNullable |-> fn.ReturnTypeNullable]

\* safeFn of the synthesis loop
SafeFn(fn) ==
    [Name |-> SafeName(fn.Name), Args |-> fn.Args, ReturnType |-> fn.ReturnType,
     ReturnTypeNullable |-> TRUE]

SchemaInit ==
    /\ funcs = SeedFuncs
    /\ baseIdx = 1
    /\ schemaPc = "seeded"
    /\ ConvIdle
    /\ ParseIdle
    /\ ErrIdle
    /\ UtilIdle

SkipSafe ==
    /\ schemaPc = "seeded"
    /\ baseIdx <= Len(SeedFuncs)
    /\ HasSafePrefix(SeedFuncs[baseIdx].Name)
    /\ baseIdx' = baseIdx + 1
    /\ UNCHANGED <<funcs, schemaPc>>
    /\ UNCHANGED notSchemaVars

SkipAggregate ==
    /\ schemaPc = "seeded"
    /\ baseIdx <= Len(SeedFuncs)
    /\ ~HasSafePrefix(SeedFuncs[baseIdx].Name)
    /\ isAggregateFunction(SeedFuncs[baseIdx].Name)
    /\ baseIdx' = baseIdx + 1
    /\ UNCHANGED <<funcs, schemaPc>>
    /\ UNCHANGED notSchemaVars

AppendSafe ==
    /\ schemaPc = "seeded"
    /\ baseIdx <= Len(SeedFuncs)
    /\ ~HasSafePrefix(SeedFuncs[baseIdx].Name)
    /\ ~isAggregateFunction(SeedFuncs[baseIdx].Name)
    /\ funcs' = Append(funcs, SafeFn(SeedFuncs[baseIdx]))
    /\ baseIdx' = baseIdx + 1
    /\ UNCHANGED schemaPc
    /\ UNCHANGED notSchemaVars

ReturnSchema ==
    /\ schemaPc = "seeded"
    /\ baseIdx > Len(SeedFuncs)
    /\ schemaPc' = "returned"
    /\ UNCHANGED <<funcs, baseIdx>>
    /\ UNCHANGED notSchemaVars

SchemaNext == SkipSafe \/ SkipAggregate \/ AppendSafe \/ ReturnSchema

SpecSchema == SchemaInit /\ [][SchemaNext]_vars

(***************************************************************************)
(* AST translator (convert.go).  A dialect node is a record with a kind    *)
(* (the memefish type) and that type's fields; a translated node is a      *)
(* record with a kind (the sqlcast type) and the fields the translator     *)
(* sets.  The tracker state of cc is threaded through as st; every         *)
(* converter returns [n |-> node, st |-> state].                           *)
(***************************************************************************)

Ret(n, st) == [n |-> n, st |-> st]

\* m with key k set to v (a Go map assignment m[k] = v)
Put(m, k, v) == [x \in (DOMAIN m) \cup {k} |-> IF x = k THEN v ELSE m[x]]

\* strings.ToLower on the identifiers, operator names, type names and function
\* names the modelled statements use; every other string of the model has no
\* upper-case letter
ToLower(s) ==
    CASE s = "Id" -> "id"
      [] s = "ID" -> "id"
      [] s = "Name" -> "name"
      [] s = "Users" -> "users"
      [] s = "U" -> "u"
      [] s = "Db" -> "db"
      [] s = "C" -> "c"
      [] s = "AND" -> "and"
      [] s = "INT64" -> "int64"
      [] s = "STRING" -> "string"
      [] s = "IFNULL" -> "ifnull"
      [] s = "IfNull" -> "ifnull"
      [] s = "NULLIF" -> "nullif"
      [] s = "Nullif" -> "nullif"
      [] s = "COALESCE" -> "coalesce"
      [] s = "IF" -> "if"
      [] s = "LOWER" -> "lower"
      [] s = "SAFE.SUBSTR" -> "safe.substr"
      [] OTHER -> s

\* identifier: Spanner identifiers are case-insensitive
identifier(id) == ToLower(id)

\* strings.Join(parts, ".") on the one- and two-segment paths of the model
JoinDot(parts) ==
    CASE Len(parts) = 0 -> ""
      [] Len(parts) = 1 -> parts[1]
      [] parts = <<"SAFE", "SUBSTR">> -> "SAFE.SUBSTR"
      [] parts = <<"U", "Id">> -> "U.Id"
      [] parts = <<"u", "id">> -> "u.id"
      [] OTHER -> "?"

\* str.Str + "[]" on the element type names of the model
ArraySuffix(s) ==
    CASE s = "int64" -> "int64[]"
      [] s = "string" -> "string[]"
      [] s = "int64[]" -> "int64[][]"
      [] s = "unknown" -> "unknown[]"
      [] OTHER -> "[]"

\* a + ":" + b, the colname encoding of struct fields
ColonJoin(a, b) ==
    CASE <<a, b>> = <<"id", "INT64">> -> "id:INT64"
      [] <<a, b>> = <<"Id", "INT64">> -> "Id:INT64"
      [] <<a, b>> = <<"name", "STRING">> -> "name:STRING"
      [] OTHER -> ":"

\* a + " " + b, the string form of an interval literal
SpaceJoin(a, b) ==
    CASE <<a, b>> = <<"1", "DAY">> -> "1 DAY"
      [] <<a, b>> = <<"0", "DAY">> -> "0 DAY"
      [] OTHER -> " "

\* strconv.ParseInt(n.Value, n.Base, 64), the error dropped
ParseInt(value, base) ==
    CASE value = "0" -> 0
      [] value = "1" -> 1
      [] value = "42" -> 42
      [] OTHER -> 0

\* ---- sqlcast node literals ------------------------------------------------

List(items) == [kind |-> "List", Items |-> items]

String(s) == [kind |-> "String", Str |-> s]

\* NewIdentifier
NewIdentifier(t) == String(identifier(t))

TODO == [kind |-> "TODO"]

\* todo: logs when debug is active and returns a placeholder
todo(n) == TODO

A_Star == [kind |-> "A_Star"]

Null == [kind |-> "Null"]

A_Const(val) == [kind |-> "A_Const", Val |-> val]

Integer(i) == [kind |-> "Integer", Ival |-> i]

Float(s) == [kind |-> "Float", Str |-> s]

ResTarget(name, val, loc) ==
    [kind |-> "ResTarget", Name |-> name, Val |-> val, Location |-> loc]

ColumnRef(fields, loc) ==
    [kind |-> "ColumnRef", Fields |-> List(fields), Location |-> loc]

\* Kind is AEXPR_OP (A_Expr_Kind(0)) or A_Expr_Kind_IN
A_Expr(k, names, l, r, loc) ==
    [kind |-> "A_Expr", Kind |-> k, Name |-> List(names), Lexpr |-> l, Rexpr |-> r,
     Location |-> loc]

BoolExpr(op, args, loc) ==
    [kind |-> "BoolExpr", Boolop |-> op, Args |-> List(args), Location |-> loc]

ParamRef(num, loc) == [kind |-> "ParamRef", Number |-> num, Location |-> loc]

\* FuncCall with Func: &FuncName{Name: name}
FuncCall(name, args, aggStar, loc) ==
    [kind |-> "FuncCall", Func |-> [kind |-> "FuncName", Name |-> name],
     Args |-> args, AggStar |-> aggStar, Location |-> loc]

CaseWhen(expr, result, loc) ==
    [kind |-> "CaseWhen", Expr |-> expr, Result |-> result, Location |-> loc]

CaseExpr(arg, whens, def, loc) ==
    [kind |-> "CaseExpr", Arg |-> arg, Args |-> List(whens), Defresult |-> def,
     Location |-> loc]

\* &sqlcast.TypeName{Names: &List{Items: {&String{Str: name}}}}
TypeName(name) == [kind |-> "TypeName", Names |-> List(<<String(name)>>)]

TypeCast(arg, typeName, loc) ==
    [kind |-> "TypeCast", Arg |-> arg, TypeName |-> typeName, Location |-> loc]

\* Nulltesttype 0 is IS_NULL, 1 is IS_NOT_NULL
NullTest(arg, t, loc) ==
    [kind |-> "NullTest", Arg |-> arg, Nulltesttype |-> t, Location |-> loc]

SubLink(t, sub, loc) ==
    [kind |-> "SubLink", SubLinkType |-> t, Subselect |-> sub, Location |-> loc]

A_ArrayExpr(elems, loc) ==
    [kind |-> "A_ArrayExpr", Elements |-> List(elems), Location |-> loc]

\* Colnames is a nil *List when the literal does not set it
RowExpr(args, colnames, format, loc) ==
    [kind |-> "RowExpr", Args |-> List(args), Colnames |-> colnames,
     RowFormat |-> format, Location |-> loc]

A_Indirection(arg, ind) ==
    [kind |-> "A_Indirection", Arg |-> arg, Indirection |-> List(ind)]

RangeVar(catalog, schema, rel, alias) ==
    [kind |-> "RangeVar", Catalogname |-> catalog, Schemaname |-> schema,
     Relname |-> rel, Alias |-> alias]

Alias(name) == [kind |-> "Alias", Aliasname |-> <<name>>]

\* the zero value &sqlcast.SelectStmt{}: every list and clause nil
EmptySelectStmt ==
    [kind |-> "SelectStmt", TargetList |-> Nil, FromClause |-> Nil,
     WhereClause |-> Nil, GroupClause |-> Nil, SortClause |-> Nil,
     LimitCount |-> Nil, LimitOffset |-> Nil, ValuesLists |-> Nil,
     WithClause |-> Nil]

\* ---- expression converters -------------------------------------------------

\* Every converter takes the dialect node and the converter's fields (st) and
\* returns Ret(node, fields).  Where the code calls a converter and goes on
\* with what it returned, the definition hands the call to a local operator
\* whose argument is that result: in convertBinaryExpr, right(l) is the rest
\* of the function once l := c.convert(n.Left) has returned.

RECURSIVE convert(_, _)
RECURSIVE convertAll(_, _)

\* a range loop appending c.convert(x) for each x of xs, in order
convertAll(xs, st) ==
    LET cons(h, t) == [ns |-> <<h.n>> \o t.ns, st |-> t.st]
        rest(h) == cons(h, convertAll(Tail(xs), h.st))
    IN  IF xs = <<>> THEN [ns |-> <<>>, st |-> st]
        ELSE rest(convert(Head(xs), st))

convertIdent(n, st) == Ret(ColumnRef(<<NewIdentifier(n.Name)>>, 0), st)

convertPath(n, st) ==
    Ret(ColumnRef([i \in 1..Len(n.Idents) |-> NewIdentifier(n.Idents[i].Name)], 0), st)

convertIntLiteral(n, st) == Ret(A_Const(Integer(ParseInt(n.Value, n.Base))), st)

convertStringLiteral(n, st) == Ret(A_Const(String(n.Value)), st)

convertBoolLiteral(n, st) ==
    Ret(A_Const(String(IF n.Value THEN "true" ELSE "false")), st)

convertBinaryExpr(n, st) ==
    LET expr(l, r) ==
            Ret([kind |-> "A_Expr", Kind |-> "AEXPR_OP",
                 Name |-> List(<<NewIdentifier(n.Op)>>),
                 Lexpr |-> l.n, Rexpr |-> r.n, Location |-> 0], r.st)
        right(l) == expr(l, convert(n.Right, l.st))
    IN  right(convert(n.Left, st))

\* convertParam without the lookup: every occurrence is given a new number
convertParam_alwaysNew(n, st) ==
    LET c == st.paramCount + 1
    IN  Ret(ParamRef(c, n.Atmark),
            [st EXCEPT !.paramCount = c,
                       !.paramMap = Put(@, n.Name, c),
                       !.paramsByNum = Put(@, c, n.Name)])

\* the tracker: a name met before keeps its number, a new name takes the
\* next one
convertParam(n, st) ==
    IF n.Name \in DOMAIN st.paramMap
    THEN Ret(ParamRef(st.paramMap[n.Name], n.Atmark), st)
    ELSE LET c == st.paramCount + 1
         IN  Ret(ParamRef(c, n.Atmark),
                 [st EXCEPT !.paramCount = c,
                            !.paramMap = Put(@, n.Name, c),
                            !.paramsByNum = Put(@, c, n.Name)])

convertDefaultExpr(n, st) ==
    IF n.Default THEN Ret(A_Const(String("DEFAULT")), st)
    ELSE IF n.Expr # Nil THEN convert(n.Expr, st)
    ELSE Ret(TODO, st)

\* the loop over n.Args of convertCallExpr: only *ast.ExprArg is translated
RECURSIVE convertCallArgs(_, _)
convertCallArgs(args, st) ==
    LET cons(h, t) == [ns |-> <<h.n>> \o t.ns, st |-> t.st]
        rest(h) == cons(h, convertCallArgs(Tail(args), h.st))
    IN  IF args = <<>> THEN [ns |-> <<>>, st |-> st]
        ELSE IF Head(args).kind = "ExprArg"
             THEN rest(convert(Head(args).Expr, st))
             ELSE convertCallArgs(Tail(args), st)

\* IFNULL as WHEN expr IS NULL THEN null_result ELSE expr
convertIfNullToCase_isNull(expr, nullResult, location) ==
    CaseExpr(Nil, <<CaseWhen(NullTest(expr, 0, location), nullResult, location)>>,
             expr, location)

convertIfNullToCase(expr, nullResult, location) ==
    CaseExpr(Nil, <<CaseWhen(NullTest(expr, 1, location), expr, location)>>,
             nullResult, location)

convertNullIfToCase(expr, exprToMatch, location) ==
    CaseExpr(Nil,
             <<CaseWhen(A_Expr("AEXPR_OP", <<String("=")>>, expr, exprToMatch, location),
                        A_Const(Null), location)>>,
             expr, location)

convertCallExpr(n, st) ==
    LET funcName == IF n.Func # Nil /\ Len(n.Func.Idents) > 0
                    THEN JoinDot([i \in 1..Len(n.Func.Idents) |-> n.Func.Idents[i].Name])
                    ELSE ""
        funcNameLower == ToLower(funcName)
        pos == n.Func.Idents[1].NamePos
        call(a) ==
            CASE funcNameLower = "ifnull" /\ Len(a.ns) = 2 ->
                    Ret(convertIfNullToCase(a.ns[1], a.ns[2], pos), a.st)
              [] funcNameLower = "nullif" /\ Len(a.ns) = 2 ->
                    Ret(convertNullIfToCase(a.ns[1], a.ns[2], pos), a.st)
              [] funcNameLower = "coalesce" /\ Len(a.ns) >= 1 ->
                    Ret([kind |-> "CoalesceExpr", Args |-> List(a.ns), Location |-> pos],
                        a.st)
              [] OTHER ->
                    Ret(FuncCall(funcName, List(a.ns), FALSE, 0), a.st)
    IN  call(convertCallArgs(n.Args, st))

\* the WHEN clauses are translated first, then ELSE, then the operand
convertCaseExpr(n, st) ==
    LET RECURSIVE whens(_, _)
        whens(ws, s) ==
            LET cons(c, t, rest) ==
                    [ns |-> <<CaseWhen(c.n, t.n, Head(ws).When - s.positionOffset)>>
                            \o rest.ns,
                     st |-> rest.st]
                more(c, t) == cons(c, t, whens(Tail(ws), t.st))
                result(c) == more(c, convert(Head(ws).Then, c.st))
            IN  IF ws = <<>> THEN [ns |-> <<>>, st |-> s]
                ELSE result(convert(Head(ws).Cond, s))
        expr(w, d, a) == Ret(CaseExpr(a.n, w.ns, d.n, n.Case - st.positionOffset), a.st)
        operand(w, d) == expr(w, d, convert(n.Expr, d.st))
        default(w) ==
            operand(w, IF n.Else # Nil THEN convert(n.Else.Expr, w.st) ELSE Ret(Nil, w.st))
    IN  default(whens(n.Whens, st))

\* convertType: SimpleType -> lower-cased name, ArrayType -> element name + "[]"
RECURSIVE convertType(_)
convertType(t) ==
    LET array(elemType) ==
            IF elemType # Nil /\ Len(elemType.Names.Items) > 0
            THEN TypeName(ArraySuffix(elemType.Names.Items[1].Str))
            ELSE TypeName("")
    IN  IF t = Nil THEN Nil
        ELSE CASE t.kind = "SimpleType" -> TypeName(ToLower(t.Name))
               [] t.kind = "ArrayType" -> array(convertType(t.Item))
               [] OTHER -> TypeName("unknown")

convertCastExpr(n, st) ==
    LET cast(a) == Ret(TypeCast(a.n, convertType(n.Type), n.Cast - st.positionOffset), a.st)
    IN  cast(convert(n.Expr, st))

\* n.Right is translated before n.Left
convertInExpr(n, st) ==
    LET cond == n.Right
        listOf(v) == Ret(List(v.ns), v.st)
        expr(right, left) ==
            IF n.Not
            THEN Ret(A_Expr("AEXPR_OP", <<String("<>"), String("ALL")>>,
                            left.n, right.n, -1), left.st)
            ELSE Ret(A_Expr("A_Expr_Kind_IN", <<String("=")>>, left.n, right.n, -1),
                     left.st)
        lexpr(right) == expr(right, convert(n.Left, right.st))
    IN  lexpr(CASE cond.kind = "ValuesInCondition" -> listOf(convertAll(cond.Exprs, st))
                [] cond.kind = "SubQueryInCondition" -> convert(cond.Query, st)
                [] cond.kind = "UnnestInCondition" -> convert(cond.Expr, st)
                [] OTHER -> Ret(todo(cond), st))

convertIsNullExpr(n, st) ==
    LET test(a) ==
            Ret(NullTest(a.n, IF n.Not THEN 1 ELSE 0, n.Null - st.positionOffset), a.st)
    IN  test(convert(n.Left, st))

convertUnaryExpr(n, st) ==
    LET loc == n.OpPos - st.positionOffset
        expr(a) ==
            CASE n.Op = "NOT" -> Ret(BoolExpr("NOT", <<a.n>>, loc), a.st)
              [] n.Op \in {"+", "-"} ->
                    Ret(A_Expr("AEXPR_OP", <<String(n.Op)>>, Nil, a.n, loc), a.st)
              [] n.Op = "~" -> Ret(A_Expr("AEXPR_OP", <<String("~")>>, Nil, a.n, loc), a.st)
              [] OTHER -> Ret(todo(n), st)
    IN  expr(convert(n.Expr, st))

convertCountStarExpr(n, st) ==
    Ret(FuncCall("count", Nil, TRUE, n.Count - st.positionOffset), st)

\* n.Left is translated twice: once for >= and once for <=
convertBetweenExpr(n, st) ==
    LET expr(l1, rs, l2, re) ==
            LET geExpr == A_Expr("AEXPR_OP", <<String(">=")>>, l1.n, rs.n, 0)
                leExpr == A_Expr("AEXPR_OP", <<String("<=")>>, l2.n, re.n, 0)
                andExpr == BoolExpr("AND", <<geExpr, leExpr>>, 0)
            IN  IF n.Not THEN Ret(BoolExpr("NOT", <<andExpr>>, 0), re.st)
                ELSE Ret(andExpr, re.st)
        rightEnd(l1, rs, l2) == expr(l1, rs, l2, convert(n.RightEnd, l2.st))
        leftAgain(l1, rs) == rightEnd(l1, rs, convert(n.Left, rs.st))
        rightStart(l1) == leftAgain(l1, convert(n.RightStart, l1.st))
    IN  rightStart(convert(n.Left, st))

convertExtractExpr(n, st) ==
    LET call(e) ==
            Ret(FuncCall("extract", List(<<String(n.Part.Name), e.n>>), FALSE,
                         n.Extract - st.positionOffset), e.st)
    IN  call(convert(n.Expr, st))

convertIfExpr(n, st) ==
    LET loc == n.If - st.positionOffset
        expr(c, t, e) == Ret(CaseExpr(Nil, <<CaseWhen(c.n, t.n, loc)>>, e.n, loc), e.st)
        elseResult(c, t) == expr(c, t, convert(n.ElseResult, t.st))
        trueResult(c) == elseResult(c, convert(n.TrueResult, c.st))
    IN  trueResult(convert(n.Expr, st))

convertParenExpr(n, st) == convert(n.Expr, st)

convertFloatLiteral(n, st) == Ret(A_Const(Float(n.Value)), st)

convertBytesLiteral(n, st) == Ret(A_Const(String(n.Value)), st)

convertDateLiteral(n, st) ==
    Ret(TypeCast(A_Const(String(n.Value.Value)), TypeName("date"), n.Date), st)

convertTimestampLiteral(n, st) ==
    Ret(TypeCast(A_Const(String(n.Value.Value)), TypeName("timestamp"), n.Timestamp), st)

convertNumericLiteral(n, st) ==
    Ret(TypeCast(A_Const(String(n.Value.Value)), TypeName("numeric"), n.Numeric), st)

convertJSONLiteral(n, st) ==
    Ret(TypeCast(A_Const(String(n.Value.Value)), TypeName("json"), n.JSON), st)

convertScalarSubQuery(n, st) ==
    LET link(q) == Ret(SubLink("EXPR_SUBLINK", q.n, n.Lparen), q.st)
    IN  link(convert(n.Query, st))

convertArraySubQuery(n, st) ==
    LET array(q) ==
            Ret(A_ArrayExpr(<<SubLink("ARRAY_SUBLINK", q.n, n.Array)>>, n.Array), q.st)
    IN  array(convert(n.Query, st))

convertExistsSubQuery(n, st) ==
    LET link(q) == Ret(SubLink("EXISTS_SUBLINK", q.n, n.Exists), q.st)
    IN  link(convert(n.Query, st))

convertArrayLiteral(n, st) ==
    LET array(v) == Ret(A_ArrayExpr(v.ns, 0), v.st)
    IN  array(convertAll(n.Values, st))

\* ---- struct, interval, access --------------------------------------------

\* field.Ident.Name dereferences a nil Ident for an unnamed field, and
\* field.Type.(*ast.SimpleType) is an unchecked type assertion: either one
\* panics
structFieldPanics(field) == field.Ident = Nil \/ field.Type.kind # "SimpleType"

convertTypedStructLiteral(n, st) ==
    LET row(v) ==
            IF \E i \in 1..Len(n.Fields) : structFieldPanics(n.Fields[i])
            THEN Ret(Nil, [v.st EXCEPT !.panicked = TRUE])
            ELSE Ret(RowExpr(v.ns,
                             List([i \in 1..Len(n.Fields) |->
                                      String(ColonJoin(n.Fields[i].Ident.Name,
                                                       n.Fields[i].Type.Name))]),
                             0, n.Struct),
                     v.st)
    IN  row(convertAll(n.Values, st))

\* the type switch on arg.Expr of convertTypelessStructLiteral
typeHint(expr) ==
    CASE expr.kind = "IntLiteral" -> "INT64"
      [] expr.kind = "StringLiteral" -> "STRING"
      [] expr.kind = "BoolLiteral" -> "BOOL"
      [] expr.kind = "FloatLiteral" -> "FLOAT64"
      [] expr.kind = "DateLiteral" -> "DATE"
      [] expr.kind = "TimestampLiteral" -> "TIMESTAMP"
      [] expr.kind = "NumericLiteral" -> "NUMERIC"
      [] expr.kind = "JSONLiteral" -> "JSON"
      [] expr.kind = "BytesLiteral" -> "BYTES"
      [] OTHER -> ""

convertTypelessStructLiteral(n, st) ==
    LET RECURSIVE vals(_, _)
        vals(vs, s) ==
            LET arg == Head(vs)
                field(e, c) == [a |-> e.n, c |-> c, st |-> e.st]
                aliasCol ==
                    IF typeHint(arg.Expr) # ""
                    THEN String(ColonJoin(arg.As.Alias.Name, typeHint(arg.Expr)))
                    ELSE String(arg.As.Alias.Name)
                cons(one, rest) ==
                    [args |-> <<one.a>> \o rest.args,
                     colnames |-> <<one.c>> \o rest.colnames,
                     st |-> rest.st]
                more(one) == cons(one, vals(Tail(vs), one.st))
            IN  IF vs = <<>> THEN [args |-> <<>>, colnames |-> <<>>, st |-> s]
                ELSE more(CASE arg.kind = "ExprArg" ->
                                 field(convert(arg.Expr, s), String(""))
                            [] arg.kind = "Alias" ->
                                 field(convert(arg.Expr, s), aliasCol)
                            [] OTHER -> [a |-> todo(arg), c |-> String(""), st |-> s])
        row(v) == Ret(RowExpr(v.args, List(v.colnames), 0, n.Struct), v.st)
    IN  row(vals(n.Values, st))

convertTupleStructLiteral(n, st) ==
    LET row(v) == Ret(RowExpr(v.ns, Nil, 1, n.Lparen), v.st)
    IN  row(convertAll(n.Values, st))

convertIntervalLiteralSingle(n, st) ==
    CASE n.Value.kind = "Param" -> convert(n.Value, st)
      [] n.Value.kind = "IntLiteral" ->
            Ret(TypeCast(A_Const(String(SpaceJoin(n.Value.Value, n.DateTimePart))),
                         TypeName("interval"), n.Interval), st)
      [] OTHER ->
            Ret(TypeCast(A_Const(String(SpaceJoin("0", n.DateTimePart))),
                         TypeName("interval"), n.Interval), st)

convertSelectorExpr(n, st) ==
    LET field(e) == Ret(A_Indirection(e.n, <<String(n.Ident.Name)>>), e.st)
    IN  field(convert(n.Expr, st))

convertIndexExpr(n, st) ==
    LET at(e, i) == Ret(A_Indirection(e.n, <<[kind |-> "A_Indices", Lidx |-> i.n]>>), i.st)
        index(e) == at(e, convert(n.Index, e.st))
    IN  index(convert(n.Expr, st))

convertUnnest(n, st) ==
    LET range(e) ==
            Ret([kind |-> "RangeFunction",
                 Functions |-> List(<<List(<<[kind |-> "FuncCall",
                                              Func |-> [kind |-> "FuncName",
                                                        Names |-> List(<<String("unnest")>>)],
                                              Args |-> List(<<e.n>>),
                                              AggStar |-> FALSE,
                                              Location |-> 0]>>)>>),
                 Ordinality |-> (n.WithOffset # Nil),
                 Alias |-> IF n.As # Nil /\ n.As.Alias # Nil
                           THEN Alias(identifier(n.As.Alias.Name)) ELSE Nil],
                e.st)
    IN  range(convert(n.Expr, st))

\* ---- table expressions -----------------------------------------------------

\* the switch on n.Op of convertJoin
joinType(op) ==
    CASE op = "LEFT OUTER" -> "JoinTypeLeft"
      [] op = "RIGHT OUTER" -> "JoinTypeRight"
      [] op = "FULL OUTER" -> "JoinTypeFull"
      [] OTHER -> "JoinTypeInner"

RECURSIVE convertTableExpr(_, _)

convertJoin(n, st) ==
    LET join(l, r, q) ==
            Ret([kind |-> "JoinExpr", Jointype |-> joinType(n.Op),
                 Larg |-> l.n, Rarg |-> r.n, Quals |-> q.n,
                 UsingClause |->
                    IF n.Cond # Nil /\ n.Cond.kind = "Using"
                    THEN List([i \in 1..Len(n.Cond.Idents) |->
                                  String(identifier(n.Cond.Idents[i].Name))])
                    ELSE Nil],
                q.st)
        cond(l, r) ==
            join(l, r, IF n.Cond # Nil /\ n.Cond.kind = "On"
                       THEN convert(n.Cond.Expr, r.st) ELSE Ret(Nil, r.st))
        right(l) == cond(l, convertTableExpr(n.Right, l.st))
    IN  right(convertTableExpr(n.Left, st))

convertTableExpr(t, st) ==
    LET subselect(q) ==
            Ret([kind |-> "RangeSubselect", Subquery |-> q.n,
                 Alias |-> IF t.As # Nil THEN Alias(identifier(t.As.Alias.Name))
                           ELSE Nil],
                q.st)
    IN  CASE t.kind = "TableName" ->
                Ret(RangeVar(NoStr, NoStr, <<identifier(t.Table.Name)>>,
                             IF t.As # Nil THEN Alias(identifier(t.As.Alias.Name)) ELSE Nil),
                    st)
          [] t.kind = "Join" -> convertJoin(t, st)
          [] t.kind = "ParenTableExpr" -> convertTableExpr(t.Source, st)
          [] t.kind = "SubQueryTableExpr" -> subselect(convert(t.Query, st))
          [] t.kind = "Unnest" -> convertUnnest(t, st)
          [] OTHER -> Ret(todo(t), st)

\* convertTableNameToRangeVar: the last identifier is the relation, the one
\* before it the schema, the first of three or more the catalog
convertTableNameToRangeVar(path) ==
    IF path = Nil \/ Len(path.Idents) = 0
    THEN RangeVar(NoStr, NoStr, <<"unknown">>, Nil)
    ELSE LET k == Len(path.Idents)
         IN  RangeVar(IF k >= 3 THEN <<identifier(path.Idents[1].Name)>> ELSE NoStr,
                      IF k >= 2 THEN <<identifier(path.Idents[k - 1].Name)>> ELSE NoStr,
                      <<identifier(path.Idents[k].Name)>>,
                      Nil)

\* ---- SELECT ----------------------------------------------------------------

\* the name an ExprSelectItem gives its result target: an identifier's own
\* name, a path's last identifier, otherwise nil
exprItemName(expr) ==
    CASE expr.kind = "Ident" -> <<expr.Name>>
      [] expr.kind = "Path" /\ Len(expr.Idents) > 0 -> <<expr.Idents[Len(expr.Idents)].Name>>
      [] OTHER -> NoStr

\* the name of an *ast.Alias item: i.As.Alias.Name when both are set
aliasName(i) == IF i.As # Nil /\ i.As.Alias # Nil THEN <<i.As.Alias.Name>> ELSE NoStr

\* the fields of table.*: the lowered identifiers of the expression
dotStarFields(expr, st) ==
    LET one(e) == Ret(<<e.n>>, e.st)
    IN  CASE expr.kind = "Ident" -> Ret(<<NewIdentifier(expr.Name)>>, st)
          [] expr.kind = "Path" ->
                Ret([k \in 1..Len(expr.Idents) |-> NewIdentifier(expr.Idents[k].Name)], st)
          [] OTHER -> one(convert(expr, st))

\* one iteration of the loop over n.Results of convertSelect
convertSelectItem(item, st) ==
    LET target(name, e) == Ret(ResTarget(name, e.n, 0), e.st)
        dotStar(f) == Ret(ResTarget(NoStr, ColumnRef(f.n \o <<A_Star>>, 0), 0), f.st)
    IN  CASE item.kind = "Star" ->
                Ret(ResTarget(NoStr,
                              ColumnRef(<<A_Star>>, item.Star + st.positionOffset),
                              item.Star + st.positionOffset), st)
          [] item.kind = "DotStar" -> dotStar(dotStarFields(item.Expr, st))
          [] item.kind = "Alias" -> target(aliasName(item), convert(item.Expr, st))
          [] item.kind = "ExprSelectItem" ->
                target(exprItemName(item.Expr), convert(item.Expr, st))
          [] OTHER -> target(NoStr, convert(item, st))

RECURSIVE convertSelectItems(_, _)
convertSelectItems(items, st) ==
    LET cons(h, t) == [ns |-> <<h.n>> \o t.ns, st |-> t.st]
        rest(h) == cons(h, convertSelectItems(Tail(items), h.st))
    IN  IF items = <<>> THEN [ns |-> <<>>, st |-> st]
        ELSE rest(convertSelectItem(Head(items), st))

\* the target list, then FROM, then WHERE, then GROUP BY
convertSelect(n, st) ==
    LET stmt(tl, fr, wh, gr) ==
            Ret([kind |-> "SelectStmt", TargetList |-> List(tl.ns),
                 FromClause |-> List(fr.ns), WhereClause |-> wh.n,
                 GroupClause |-> gr.n, SortClause |-> Nil, LimitCount |-> Nil,
                 LimitOffset |-> Nil, ValuesLists |-> Nil, WithClause |-> Nil],
                gr.st)
        one(t) == [ns |-> <<t.n>>, st |-> t.st]
        listOf(g) == Ret(List(g.ns), g.st)
        groupBy(tl, fr, wh) ==
            stmt(tl, fr, wh,
                 IF n.GroupBy # Nil /\ Len(n.GroupBy.Exprs) > 0
                 THEN listOf(convertAll(n.GroupBy.Exprs, wh.st))
                 ELSE Ret(Nil, wh.st))
        where(tl, fr) ==
            groupBy(tl, fr,
                    IF n.Where # Nil THEN convert(n.Where.Expr, fr.st)
                    ELSE Ret(Nil, fr.st))
        from(tl) ==
            where(tl,
                  IF n.From # Nil /\ n.From.Source # Nil
                  THEN one(convertTableExpr(n.From.Source, tl.st))
                  ELSE [ns |-> <<>>, st |-> tl.st])
    IN  from(convertSelectItems(n.Results, st))

\* SortbyDir stays the zero value unless the item says ASC or DESC
convertOrderBy(n, st) ==
    LET RECURSIVE items(_, _)
        items(xs, s) ==
            LET cons(e, rest) ==
                    [ns |-> <<[kind |-> "SortBy", Node |-> e.n,
                               SortbyDir |->
                                  CASE Head(xs).Dir = "ASC" -> "SortByDirAsc"
                                    [] Head(xs).Dir = "DESC" -> "SortByDirDesc"
                                    [] OTHER -> "SortByDirDefault"]>>
                            \o rest.ns,
                     st |-> rest.st]
                more(e) == cons(e, items(Tail(xs), e.st))
            IN  IF xs = <<>> THEN [ns |-> <<>>, st |-> s]
                ELSE more(convert(Head(xs).Expr, s))
        listOf(r) == Ret(List(r.ns), r.st)
    IN  listOf(items(n.Items, st))

convertWithClause(n, st) ==
    LET RECURSIVE ctes(_, _)
        ctes(xs, s) ==
            LET cons(q, rest) ==
                    [ns |-> <<[kind |-> "CommonTableExpr",
                               Ctename |-> <<Head(xs).Name.Name>>,
                               Ctequery |-> q.n]>> \o rest.ns,
                     st |-> rest.st]
                more(q) == cons(q, ctes(Tail(xs), q.st))
            IN  IF xs = <<>> THEN [ns |-> <<>>, st |-> s]
                ELSE more(convert(Head(xs).QueryExpr, s))
        clause(r) == Ret([kind |-> "WithClause", Ctes |-> List(r.ns)], r.st)
    IN  clause(ctes(n.CTEs, st))

\* the body first, then ORDER BY, LIMIT, OFFSET and last the WITH clause; a
\* body that is not a SelectStmt is replaced by &sqlcast.SelectStmt{}
convertQuery(n, st) ==
    LET baseStmt(inner) == IF inner.n.kind = "SelectStmt" THEN inner.n ELSE EmptySelectStmt
        stmt(base, ob, lc, lo, wc) ==
            Ret([base EXCEPT !.SortClause = ob.n, !.LimitCount = lc.n,
                             !.LimitOffset = lo.n, !.WithClause = wc.n],
                wc.st)
        withClause(base, ob, lc, lo) ==
            stmt(base, ob, lc, lo,
                 IF n.With # Nil THEN convertWithClause(n.With, lo.st)
                 ELSE Ret(base.WithClause, lo.st))
        limitOffset(base, ob, lc) ==
            withClause(base, ob, lc,
                       IF n.Limit # Nil /\ n.Limit.Offset # Nil
                       THEN convert(n.Limit.Offset, lc.st)
                       ELSE Ret(base.LimitOffset, lc.st))
        limitCount(base, ob) ==
            limitOffset(base, ob,
                        IF n.Limit # Nil THEN convert(n.Limit.Count, ob.st)
                        ELSE Ret(base.LimitCount, ob.st))
        orderBy(inner) ==
            limitCount(baseStmt(inner),
                       IF n.OrderBy # Nil THEN convertOrderBy(n.OrderBy, inner.st)
                       ELSE Ret(baseStmt(inner).SortClause, inner.st))
    IN  orderBy(IF n.Query # Nil THEN convert(n.Query, st) ELSE Ret(Nil, st))

convertQueryStatement(n, st) == convert(n.Query, st)

\* ---- DML -------------------------------------------------------------------

convertValuesInput(n, st) ==
    LET RECURSIVE rows(_, _)
        rows(xs, s) ==
            LET cons(r, rest) == [ns |-> <<List(r.ns)>> \o rest.ns, st |-> rest.st]
                more(r) == cons(r, rows(Tail(xs), r.st))
            IN  IF xs = <<>> THEN [ns |-> <<>>, st |-> s]
                ELSE more(convertAll(Head(xs).Exprs, s))
        stmt(v) ==
            Ret([EmptySelectStmt EXCEPT !.TargetList = List(<<>>),
                                        !.ValuesLists = List(v.ns)],
                v.st)
    IN  stmt(rows(n.Rows, st))

\* one iteration of the loop over n.Items of convertThenReturn; an item of
\* any other type than Star, Alias or ExprSelectItem appends nothing
convertThenReturnItem_bareStar(item, st) ==
    LET target(name, e) == [ns |-> <<ResTarget(name, e.n, 0)>>, st |-> e.st]
    IN  CASE item.kind = "Star" -> [ns |-> <<ResTarget(NoStr, A_Star, 0)>>, st |-> st]
          [] item.kind = "Alias" -> target(aliasName(item), convert(item.Expr, st))
          [] item.kind = "ExprSelectItem" -> target(NoStr, convert(item.Expr, st))
          [] OTHER -> [ns |-> <<>>, st |-> st]

\* one iteration of the loop over n.Items of convertThenReturn; an item of
\* any other type than Star, Alias or ExprSelectItem appends nothing
convertThenReturnItem(item, st) ==
    LET target(name, e) == [ns |-> <<ResTarget(name, e.n, 0)>>, st |-> e.st]
    IN  CASE item.kind = "Star" ->
                [ns |-> <<ResTarget(NoStr, ColumnRef(<<A_Star>>, 0), 0)>>, st |-> st]
          [] item.kind = "Alias" -> target(aliasName(item), convert(item.Expr, st))
          [] item.kind = "ExprSelectItem" -> target(NoStr, convert(item.Expr, st))
          [] OTHER -> [ns |-> <<>>, st |-> st]

convertThenReturn(n, st) ==
    LET RECURSIVE items(_, _)
        items(xs, s) ==
            LET cons(h, rest) == [ns |-> h.ns \o rest.ns, st |-> rest.st]
                more(h) == cons(h, items(Tail(xs), h.st))
            IN  IF xs = <<>> THEN [ns |-> <<>>, st |-> s]
                ELSE more(convertThenReturnItem(Head(xs), s))
        listOf(r) == Ret(List(r.ns), r.st)
    IN  IF n = Nil THEN Ret(Nil, st) ELSE listOf(items(n.Items, st))

\* the input first, then THEN RETURN
convertInsert(n, st) ==
    LET cols == [i \in 1..Len(n.Columns) |-> ColumnRef(<<NewIdentifier(n.Columns[i].Name)>>, 0)]
        stmt(sel, ret) ==
            Ret([kind |-> "InsertStmt",
                 Relation |-> convertTableNameToRangeVar(n.TableName),
                 Cols |-> List(cols), SelectStmt |-> sel.n, ReturningList |-> ret.n],
                ret.st)
        returning(sel) ==
            stmt(sel, IF n.ThenReturn # Nil THEN convertThenReturn(n.ThenReturn, sel.st)
                      ELSE Ret(List(<<>>), sel.st))
    IN  returning(IF n.Input = Nil THEN Ret(Nil, st)
                  ELSE CASE n.Input.kind = "ValuesInput" -> convertValuesInput(n.Input, st)
                         [] n.Input.kind = "SubQueryInput" /\ n.Input.Query # Nil ->
                               convert(n.Input.Query, st)
                         [] OTHER -> Ret(Nil, st))

\* the loop over n.Updates of convertUpdate: the value is translated only
\* when the item is not the DEFAULT keyword, and the item is appended only
\* when it has a path and a value
convertUpdateItems(updates, st) ==
    LET RECURSIVE items(_, _)
        items(xs, s) ==
            LET item == Head(xs)
                cons(value, rest) ==
                    [ns |-> (IF Len(item.Path) > 0 /\ value.n # Nil
                             THEN <<ResTarget(<<item.Path[Len(item.Path)].Name>>,
                                              value.n, 0)>>
                             ELSE <<>>) \o rest.ns,
                     st |-> rest.st]
                more(value) == cons(value, items(Tail(xs), value.st))
            IN  IF xs = <<>> THEN [ns |-> <<>>, st |-> s]
                ELSE more(IF item.DefaultExpr # Nil /\ ~item.DefaultExpr.Default
                          THEN convert(item.DefaultExpr.Expr, s) ELSE Ret(Nil, s))
    IN  items(updates, st)

\* SET first, then WHERE, then THEN RETURN
convertUpdate(n, st) ==
    LET stmt(tl, wh, ret) ==
            Ret([kind |-> "UpdateStmt",
                 Relations |-> List(<<convertTableNameToRangeVar(n.TableName)>>),
                 TargetList |-> List(tl.ns), WhereClause |-> wh.n,
                 FromClause |-> List(<<>>), ReturningList |-> ret.n, WithClause |-> Nil],
                ret.st)
        returning(tl, wh) ==
            stmt(tl, wh, IF n.ThenReturn # Nil THEN convertThenReturn(n.ThenReturn, wh.st)
                         ELSE Ret(List(<<>>), wh.st))
        where(tl) ==
            returning(tl, IF n.Where # Nil THEN convert(n.Where.Expr, tl.st)
                          ELSE Ret(Nil, tl.st))
    IN  where(convertUpdateItems(n.Updates, st))

convertDelete(n, st) ==
    LET stmt(wh, ret) ==
            Ret([kind |-> "DeleteStmt",
                 Relations |-> List(<<convertTableNameToRangeVar(n.TableName)>>),
                 UsingClause |-> List(<<>>), WhereClause |-> wh.n,
                 ReturningList |-> ret.n, WithClause |-> Nil],
                ret.st)
        returning(wh) ==
            stmt(wh, IF n.ThenReturn # Nil THEN convertThenReturn(n.ThenReturn, wh.st)
                     ELSE Ret(List(<<>>), wh.st))
    IN  returning(IF n.Where # Nil THEN convert(n.Where.Expr, st) ELSE Ret(Nil, st))

\* ---- ALTER TABLE -----------------------------------------------------------

\* convertPathToRangeVar: the last identifier is the relation, those before
\* it, joined by dots, the schema
convertPathToRangeVar(p) ==
    IF p = Nil \/ Len(p.Idents) = 0 THEN Nil
    ELSE LET k == Len(p.Idents)
         IN  [kind |-> "RangeVar",
              Schemaname |-> IF k > 1
                             THEN <<identifier(JoinDot([i \in 1..(k - 1) |-> p.Idents[i].Name]))>>
                             ELSE NoStr,
              Relname |-> <<identifier(p.Idents[k].Name)>>]

\* the package-level convertType that convertAlterTable calls on a column
\* type: the type name of the column in lower case
convertColumnType(t) == TypeName(ToLower(t.Name))

\* the switch on n.TableAlteration; an ALTER COLUMN whose alteration has no
\* case keeps the zero Subtype, and an alteration without a case leaves Cmds
\* empty
convertAlterTable(n, st) ==
    LET alt == n.TableAlteration
        ColumnDef(col) ==
            [kind |-> "ColumnDef", Colname |-> identifier(col.Name.Name),
             TypeName |-> IF col.Type # Nil THEN convertColumnType(col.Type) ELSE Nil,
             Constraints |-> IF col.NotNull
                             THEN List(<<[kind |-> "Constraint", Contype |-> "CONSTR_NOTNULL"]>>)
                             ELSE Nil]
        AlterTableCmd(subtype, name, def) ==
            [kind |-> "AlterTableCmd", Subtype |-> subtype, Name |-> name, Def |-> def]
        cmds ==
            CASE alt.kind = "AddColumn" ->
                    [i \in 1..Len(alt.Columns) |->
                        AlterTableCmd("AT_AddColumn", NoStr, ColumnDef(alt.Columns[i]))]
              [] alt.kind = "DropColumn" ->
                    [i \in 1..Len(alt.Names) |->
                        AlterTableCmd("AT_DropColumn", <<identifier(alt.Names[i].Name)>>, Nil)]
              [] alt.kind = "AlterColumn" /\ alt.Name # Nil ->
                    <<CASE alt.Alteration.kind = "AlterColumnSetType" ->
                              AlterTableCmd("AT_AlterColumnType", <<identifier(alt.Name.Name)>>,
                                            [kind |-> "ColumnDef", Colname |-> "",
                                             TypeName |-> convertColumnType(alt.Alteration.Type),
                                             Constraints |-> Nil])
                        [] alt.Alteration.kind = "AlterColumnSetDefault" ->
                              AlterTableCmd("AT_ColumnDefault", <<identifier(alt.Name.Name)>>, Nil)
                        [] alt.Alteration.kind = "AlterColumnDropDefault" ->
                              AlterTableCmd("AT_DropNotNull", <<identifier(alt.Name.Name)>>, Nil)
                        [] OTHER ->
                              AlterTableCmd("AT_AddColumn", <<identifier(alt.Name.Name)>>, Nil)>>
              [] OTHER -> <<>>
    IN  Ret([kind |-> "AlterTableStmt", Table |-> convertPathToRangeVar(n.Name),
             Cmds |-> List(cmds)], st)

\* ---- dispatch --------------------------------------------------------------

\* cc.convert: the type switch; a nil node converts to nil, a node type
\* without a case to a placeholder
convert(n, st) ==
    IF n = Nil THEN Ret(Nil, st)
    ELSE CASE n.kind = "AlterTable" -> convertAlterTable(n, st)
           [] n.kind = "Insert" -> convertInsert(n, st)
           [] n.kind = "Update" -> convertUpdate(n, st)
           [] n.kind = "Delete" -> convertDelete(n, st)
           [] n.kind = "QueryStatement" -> convertQueryStatement(n, st)
           [] n.kind = "Query" -> convertQuery(n, st)
           [] n.kind = "Select" -> convertSelect(n, st)
           [] n.kind = "Ident" -> convertIdent(n, st)
           [] n.kind = "Path" -> convertPath(n, st)
           [] n.kind = "IntLiteral" -> convertIntLiteral(n, st)
           [] n.kind = "StringLiteral" -> convertStringLiteral(n, st)
           [] n.kind = "BoolLiteral" -> convertBoolLiteral(n, st)
           [] n.kind = "NullLiteral" -> Ret(Null, st)
           [] n.kind = "BinaryExpr" -> convertBinaryExpr(n, st)
           [] n.kind = "UnaryExpr" -> convertUnaryExpr(n, st)
           [] n.kind = "CallExpr" -> convertCallExpr(n, st)
           [] n.kind = "CountStarExpr" -> convertCountStarExpr(n, st)
           [] n.kind = "CaseExpr" -> convertCaseExpr(n, st)
           [] n.kind = "CastExpr" -> convertCastExpr(n, st)
           [] n.kind = "InExpr" -> convertInExpr(n, st)
           [] n.kind = "IsNullExpr" -> convertIsNullExpr(n, st)
           [] n.kind = "BetweenExpr" -> convertBetweenExpr(n, st)
           [] n.kind = "ExtractExpr" -> convertExtractExpr(n, st)
           [] n.kind = "IfExpr" -> convertIfExpr(n, st)
           [] n.kind = "ParenExpr" -> convertParenExpr(n, st)
           [] n.kind = "Param" -> convertParam(n, st)
           [] n.kind = "DefaultExpr" -> convertDefaultExpr(n, st)
           [] n.kind = "DateLiteral" -> convertDateLiteral(n, st)
           [] n.kind = "TimestampLiteral" -> convertTimestampLiteral(n, st)
           [] n.kind = "NumericLiteral" -> convertNumericLiteral(n, st)
           [] n.kind = "JSONLiteral" -> convertJSONLiteral(n, st)
           [] n.kind = "BytesLiteral" -> convertBytesLiteral(n, st)
           [] n.kind = "ArrayLiteral" -> convertArrayLiteral(n, st)
           [] n.kind = "FloatLiteral" -> convertFloatLiteral(n, st)
           [] n.kind = "ScalarSubQuery" -> convertScalarSubQuery(n, st)
           [] n.kind = "ArraySubQuery" -> convertArraySubQuery(n, st)
           [] n.kind = "ExistsSubQuery" -> convertExistsSubQuery(n, st)
           [] n.kind = "TypedStructLiteral" -> convertTypedStructLiteral(n, st)
           [] n.kind = "TypelessStructLiteral" -> convertTypelessStructLiteral(n, st)
           [] n.kind = "TupleStructLiteral" -> convertTupleStructLiteral(n, st)
           [] n.kind = "IntervalLiteralSingle" -> convertIntervalLiteralSingle(n, st)
           [] n.kind = "IndexExpr" -> convertIndexExpr(n, st)
           [] n.kind = "SelectorExpr" -> convertSelectorExpr(n, st)
           [] n.kind = "Unnest" -> convertUnnest(n, st)
           [] n.kind = "Star" -> Ret(ColumnRef(<<A_Star>>, 0), st)
           [] OTHER -> Ret(todo(n), st)

\* ---- statements ------------------------------------------------------------

\* The dialect ASTs memefish.ParseStatement returns for a set of statements,
\* restricted to the fields convert.go reads (and the HAVING clause, which it
\* does not read).  Byte positions are those of the statement text shown
\* above each AST.

Statements ==
    << \* 1: SELECT Id FROM Users
       [kind |-> "QueryStatement", Query |-> [kind |-> "Select",
       Results |-> <<[kind |-> "ExprSelectItem",
       Expr |-> [kind |-> "Ident", NamePos |-> 7, Name |-> "Id"]]>>,
       From |-> [kind |-> "From", Source |-> [kind |-> "TableName",
       Table |-> [kind |-> "Ident", NamePos |-> 15, Name |-> "Users"],
       As |-> Nil]], Where |-> Nil, GroupBy |-> Nil]],
       \* 2: select id from users
       [kind |-> "QueryStatement", Query |-> [kind |-> "Select",
       Results |-> <<[kind |-> "ExprSelectItem",
       Expr |-> [kind |-> "Ident", NamePos |-> 7, Name |-> "id"]]>>,
       From |-> [kind |-> "From", Source |-> [kind |-> "TableName",
       Table |-> [kind |-> "Ident", NamePos |-> 15, Name |-> "users"],
       As |-> Nil]], Where |-> Nil, GroupBy |-> Nil]],
       \* 3: SELECT * FROM users
       [kind |-> "QueryStatement", Query |-> [kind |-> "Select",
       Results |-> <<[kind |-> "Star", Star |-> 7]>>,
       From |-> [kind |-> "From", Source |-> [kind |-> "TableName",
       Table |-> [kind |-> "Ident", NamePos |-> 14, Name |-> "users"],
       As |-> Nil]], Where |-> Nil, GroupBy |-> Nil]],
       \* 4: SELECT u.* FROM users AS u
       [kind |-> "QueryStatement", Query |-> [kind |-> "Select",
       Results |-> <<[kind |-> "DotStar", Expr |-> [kind |-> "Ident",
       NamePos |-> 7, Name |-> "u"]]>>, From |-> [kind |-> "From",
       Source |-> [kind |-> "TableName", Table |-> [kind |-> "Ident",
       NamePos |-> 16, Name |-> "users"], As |-> [kind |-> "AsAlias",
       Alias |-> [kind |-> "Ident", NamePos |-> 25, Name |-> "u"]]]],
       Where |-> Nil, GroupBy |-> Nil]],
       \* 5: SELECT U.Id, name AS Name FROM Users AS U
       [kind |-> "QueryStatement", Query |-> [kind |-> "Select",
       Results |-> <<[kind |-> "ExprSelectItem",
       Expr |-> [kind |-> "Path", Idents |-> <<[kind |-> "Ident",
       NamePos |-> 7, Name |-> "U"], [kind |-> "Ident", NamePos |-> 9,
       Name |-> "Id"]>>]], [kind |-> "Alias", Expr |-> [kind |-> "Ident",
       NamePos |-> 13, Name |-> "name"], As |-> [kind |-> "AsAlias",
       Alias |-> [kind |-> "Ident", NamePos |-> 21, Name |-> "Name"]]]>>,
       From |-> [kind |-> "From", Source |-> [kind |-> "TableName",
       Table |-> [kind |-> "Ident", NamePos |-> 31, Name |-> "Users"],
       As |-> [kind |-> "AsAlias", Alias |-> [kind |-> "Ident",
       NamePos |-> 40, Name |-> "U"]]]], Where |-> Nil, GroupBy |-> Nil]],
       \* 6: SELECT u.id, name AS name FROM users AS u
       [kind |-> "QueryStatement", Query |-> [kind |-> "Select",
       Results |-> <<[kind |-> "ExprSelectItem",
       Expr |-> [kind |-> "Path", Idents |-> <<[kind |-> "Ident",
       NamePos |-> 7, Name |-> "u"], [kind |-> "Ident", NamePos |-> 9,
       Name |-> "id"]>>]], [kind |-> "Alias", Expr |-> [kind |-> "Ident",
       NamePos |-> 13, Name |-> "name"], As |-> [kind |-> "AsAlias",
       Alias |-> [kind |-> "Ident", NamePos |-> 21, Name |-> "name"]]]>>,
       From |-> [kind |-> "From", Source |-> [kind |-> "TableName",
       Table |-> [kind |-> "Ident", NamePos |-> 31, Name |-> "users"],
       As |-> [kind |-> "AsAlias", Alias |-> [kind |-> "Ident",
       NamePos |-> 40, Name |-> "u"]]]], Where |-> Nil, GroupBy |-> Nil]],
       \* 7: SELECT 1, id + 1, *, id FROM users
       [kind |-> "QueryStatement", Query |-> [kind |-> "Select",
       Results |-> <<[kind |-> "ExprSelectItem",
       Expr |-> [kind |-> "IntLiteral", Value |-> "1", Base |-> 10]],
       [kind |-> "ExprSelectItem", Expr |-> [kind |-> "BinaryExpr",
       Op |-> "+", Left |-> [kind |-> "Ident", NamePos |-> 10,
       Name |-> "id"], Right |-> [kind |-> "IntLiteral", Value |-> "1",
       Base |-> 10]]], [kind |-> "Star", Star |-> 18],
       [kind |-> "ExprSelectItem", Expr |-> [kind |-> "Ident",
       NamePos |-> 21, Name |-> "id"]]>>, From |-> [kind |-> "From",
       Source |-> [kind |-> "TableName", Table |-> [kind |-> "Ident",
       NamePos |-> 29, Name |-> "users"], As |-> Nil]], Where |-> Nil,
       GroupBy |-> Nil]],
       \* 8: SELECT id, name FROM users GROUP BY id, name
       [kind |-> "QueryStatement", Query |-> [kind |-> "Select",
       Results |-> <<[kind |-> "ExprSelectItem",
       Expr |-> [kind |-> "Ident", NamePos |-> 7, Name |-> "id"]],
       [kind |-> "ExprSelectItem", Expr |-> [kind |-> "Ident",
       NamePos |-> 11, Name |-> "name"]]>>, From |-> [kind |-> "From",
       Source |-> [kind |-> "TableName", Table |-> [kind |-> "Ident",
       NamePos |-> 21, Name |-> "users"], As |-> Nil]], Where |-> Nil,
       GroupBy |-> [kind |-> "GroupBy", Exprs |-> <<[kind |-> "Ident",
       NamePos |-> 36, Name |-> "id"], [kind |-> "Ident", NamePos |-> 40,
       Name |-> "name"]>>]]],
       \* 9: SELECT COUNT(*) FROM users
       [kind |-> "QueryStatement", Query |-> [kind |-> "Select",
       Results |-> <<[kind |-> "ExprSelectItem",
       Expr |-> [kind |-> "CountStarExpr", Count |-> 7]]>>,
       From |-> [kind |-> "From", Source |-> [kind |-> "TableName",
       Table |-> [kind |-> "Ident", NamePos |-> 21, Name |-> "users"],
       As |-> Nil]], Where |-> Nil, GroupBy |-> Nil]],
       \* 10: SELECT u.id FROM users AS u LEFT OUTER JOIN c ON u.id = c.id AND c.id = @a
       [kind |-> "QueryStatement", Query |-> [kind |-> "Select",
       Results |-> <<[kind |-> "ExprSelectItem",
       Expr |-> [kind |-> "Path", Idents |-> <<[kind |-> "Ident",
       NamePos |-> 7, Name |-> "u"], [kind |-> "Ident", NamePos |-> 9,
       Name |-> "id"]>>]]>>, From |-> [kind |-> "From",
       Source |-> [kind |-> "Join", Op |-> "LEFT OUTER",
       Left |-> [kind |-> "TableName", Table |-> [kind |-> "Ident",
       NamePos |-> 17, Name |-> "users"], As |-> [kind |-> "AsAlias",
       Alias |-> [kind |-> "Ident", NamePos |-> 26, Name |-> "u"]]],
       Right |-> [kind |-> "TableName", Table |-> [kind |-> "Ident",
       NamePos |-> 44, Name |-> "c"], As |-> Nil],
       Cond |-> [kind |-> "On", Expr |-> [kind |-> "BinaryExpr",
       Op |-> "AND", Left |-> [kind |-> "BinaryExpr", Op |-> "=",
       Left |-> [kind |-> "Path", Idents |-> <<[kind |-> "Ident",
       NamePos |-> 49, Name |-> "u"], [kind |-> "Ident", NamePos |-> 51,
       Name |-> "id"]>>], Right |-> [kind |-> "Path",
       Idents |-> <<[kind |-> "Ident", NamePos |-> 56, Name |-> "c"],
       [kind |-> "Ident", NamePos |-> 58, Name |-> "id"]>>]],
       Right |-> [kind |-> "BinaryExpr", Op |-> "=",
       Left |-> [kind |-> "Path", Idents |-> <<[kind |-> "Ident",
       NamePos |-> 65, Name |-> "c"], [kind |-> "Ident", NamePos |-> 67,
       Name |-> "id"]>>], Right |-> [kind |-> "Param", Atmark |-> 72,
       Name |-> "a"]]]]]], Where |-> Nil, GroupBy |-> Nil]],
       \* 11: SELECT id FROM users WHERE id = @a AND name = @b
       [kind |-> "QueryStatement", Query |-> [kind |-> "Select",
       Results |-> <<[kind |-> "ExprSelectItem",
       Expr |-> [kind |-> "Ident", NamePos |-> 7, Name |-> "id"]]>>,
       From |-> [kind |-> "From", Source |-> [kind |-> "TableName",
       Table |-> [kind |-> "Ident", NamePos |-> 15, Name |-> "users"],
       As |-> Nil]], Where |-> [kind |-> "Where",
       Expr |-> [kind |-> "BinaryExpr", Op |-> "AND",
       Left |-> [kind |-> "BinaryExpr", Op |-> "=",
       Left |-> [kind |-> "Ident", NamePos |-> 27, Name |-> "id"],
       Right |-> [kind |-> "Param", Atmark |-> 32, Name |-> "a"]],
       Right |-> [kind |-> "BinaryExpr", Op |-> "=",
       Left |-> [kind |-> "Ident", NamePos |-> 39, Name |-> "name"],
       Right |-> [kind |-> "Param", Atmark |-> 46, Name |-> "b"]]]],
       GroupBy |-> Nil]],
       \* 12: SELECT @a, @b, @a
       [kind |-> "QueryStatement", Query |-> [kind |-> "Select",
       Results |-> <<[kind |-> "ExprSelectItem",
       Expr |-> [kind |-> "Param", Atmark |-> 7, Name |-> "a"]],
       [kind |-> "ExprSelectItem", Expr |-> [kind |-> "Param",
       Atmark |-> 11, Name |-> "b"]], [kind |-> "ExprSelectItem",
       Expr |-> [kind |-> "Param", Atmark |-> 15, Name |-> "a"]]>>,
       From |-> Nil, Where |-> Nil, GroupBy |-> Nil]],
       \* 13: SELECT id FROM users WHERE @a IN (@b)
       [kind |-> "QueryStatement", Query |-> [kind |-> "Select",
       Results |-> <<[kind |-> "ExprSelectItem",
       Expr |-> [kind |-> "Ident", NamePos |-> 7, Name |-> "id"]]>>,
       From |-> [kind |-> "From", Source |-> [kind |-> "TableName",
       Table |-> [kind |-> "Ident", NamePos |-> 15, Name |-> "users"],
       As |-> Nil]], Where |-> [kind |-> "Where",
       Expr |-> [kind |-> "InExpr", Not |-> FALSE,
       Left |-> [kind |-> "Param", Atmark |-> 27, Name |-> "a"],
       Right |-> [kind |-> "ValuesInCondition",
       Exprs |-> <<[kind |-> "Param", Atmark |-> 34, Name |-> "b"]>>]]],
       GroupBy |-> Nil]],
       \* 14: SELECT id FROM users WHERE id NOT IN (@a, @b) AND name = @a
       [kind |-> "QueryStatement", Query |-> [kind |-> "Select",
       Results |-> <<[kind |-> "ExprSelectItem",
       Expr |-> [kind |-> "Ident", NamePos |-> 7, Name |-> "id"]]>>,
       From |-> [kind |-> "From", Source |-> [kind |-> "TableName",
       Table |-> [kind |-> "Ident", NamePos |-> 15, Name |-> "users"],
       As |-> Nil]], Where |-> [kind |-> "Where",
       Expr |-> [kind |-> "BinaryExpr", Op |-> "AND",
       Left |-> [kind |-> "InExpr", Not |-> TRUE,
       Left |-> [kind |-> "Ident", NamePos |-> 27, Name |-> "id"],
       Right |-> [kind |-> "ValuesInCondition",
       Exprs |-> <<[kind |-> "Param", Atmark |-> 38, Name |-> "a"],
       [kind |-> "Param", Atmark |-> 42, Name |-> "b"]>>]],
       Right |-> [kind |-> "BinaryExpr", Op |-> "=",
       Left |-> [kind |-> "Ident", NamePos |-> 50, Name |-> "name"],
       Right |-> [kind |-> "Param", Atmark |-> 57, Name |-> "a"]]]],
       GroupBy |-> Nil]],
       \* 15: SELECT id FROM users WHERE id BETWEEN @a AND @b
       [kind |-> "QueryStatement", Query |-> [kind |-> "Select",
       Results |-> <<[kind |-> "ExprSelectItem",
       Expr |-> [kind |-> "Ident", NamePos |-> 7, Name |-> "id"]]>>,
       From |-> [kind |-> "From", Source |-> [kind |-> "TableName",
       Table |-> [kind |-> "Ident", NamePos |-> 15, Name |-> "users"],
       As |-> Nil]], Where |-> [kind |-> "Where",
       Expr |-> [kind |-> "BetweenExpr", Not |-> FALSE,
       Left |-> [kind |-> "Ident", NamePos |-> 27, Name |-> "id"],
       RightStart |-> [kind |-> "Param", Atmark |-> 38, Name |-> "a"],
       RightEnd |-> [kind |-> "Param", Atmark |-> 45, Name |-> "b"]]],
       GroupBy |-> Nil]],
       \* 16: SELECT CASE @a WHEN @b THEN 1 END
       [kind |-> "QueryStatement", Query |-> [kind |-> "Select",
       Results |-> <<[kind |-> "ExprSelectItem",
       Expr |-> [kind |-> "CaseExpr", Case |-> 7,
       Expr |-> [kind |-> "Param", Atmark |-> 12, Name |-> "a"],
       Whens |-> <<[kind |-> "CaseWhen", When |-> 15,
       Cond |-> [kind |-> "Param", Atmark |-> 20, Name |-> "b"],
       Then |-> [kind |-> "IntLiteral", Value |-> "1", Base |-> 10]]>>,
       Else |-> Nil]]>>, From |-> Nil, Where |-> Nil, GroupBy |-> Nil]],
       \* 17: SELECT CASE WHEN id IS NULL THEN 0 ELSE @a END FROM users
       [kind |-> "QueryStatement", Query |-> [kind |-> "Select",
       Results |-> <<[kind |-> "ExprSelectItem",
       Expr |-> [kind |-> "CaseExpr", Case |-> 7, Expr |-> Nil,
       Whens |-> <<[kind |-> "CaseWhen", When |-> 12,
       Cond |-> [kind |-> "IsNullExpr", Null |-> 23, Not |-> FALSE,
       Left |-> [kind |-> "Ident", NamePos |-> 17, Name |-> "id"]],
       Then |-> [kind |-> "IntLiteral", Value |-> "0", Base |-> 10]]>>,
       Else |-> [kind |-> "CaseElse", Expr |-> [kind |-> "Param",
       Atmark |-> 40, Name |-> "a"]]]]>>, From |-> [kind |-> "From",
       Source |-> [kind |-> "TableName", Table |-> [kind |-> "Ident",
       NamePos |-> 52, Name |-> "users"], As |-> Nil]], Where |-> Nil,
       GroupBy |-> Nil]],
       \* 18: SELECT CAST(@a AS INT64)
       [kind |-> "QueryStatement", Query |-> [kind |-> "Select",
       Results |-> <<[kind |-> "ExprSelectItem",
       Expr |-> [kind |-> "CastExpr", Cast |-> 7,
       Expr |-> [kind |-> "Param", Atmark |-> 12, Name |-> "a"],
       Type |-> [kind |-> "SimpleType", Name |-> "INT64"]]]>>,
       From |-> Nil, Where |-> Nil, GroupBy |-> Nil]],
       \* 19: SELECT -id, NOT @a FROM users
       [kind |-> "QueryStatement", Query |-> [kind |-> "Select",
       Results |-> <<[kind |-> "ExprSelectItem",
       Expr |-> [kind |-> "UnaryExpr", OpPos |-> 7, Op |-> "-",
       Expr |-> [kind |-> "Ident", NamePos |-> 8, Name |-> "id"]]],
       [kind |-> "ExprSelectItem", Expr |-> [kind |-> "UnaryExpr",
       OpPos |-> 12, Op |-> "NOT", Expr |-> [kind |-> "Param",
       Atmark |-> 16, Name |-> "a"]]]>>, From |-> [kind |-> "From",
       Source |-> [kind |-> "TableName", Table |-> [kind |-> "Ident",
       NamePos |-> 24, Name |-> "users"], As |-> Nil]], Where |-> Nil,
       GroupBy |-> Nil]],
       \* 20: SELECT EXTRACT(DAY FROM @a)
       [kind |-> "QueryStatement", Query |-> [kind |-> "Select",
       Results |-> <<[kind |-> "ExprSelectItem",
       Expr |-> [kind |-> "ExtractExpr", Extract |-> 7,
       Part |-> [kind |-> "Ident", NamePos |-> 15, Name |-> "DAY"],
       Expr |-> [kind |-> "Param", Atmark |-> 24, Name |-> "a"]]]>>,
       From |-> Nil, Where |-> Nil, GroupBy |-> Nil]],
       \* 21: SELECT IF(@a, 1, 0)
       [kind |-> "QueryStatement", Query |-> [kind |-> "Select",
       Results |-> <<[kind |-> "ExprSelectItem",
       Expr |-> [kind |-> "IfExpr", If |-> 7, Expr |-> [kind |-> "Param",
       Atmark |-> 10, Name |-> "a"],
       TrueResult |-> [kind |-> "IntLiteral", Value |-> "1", Base |-> 10],
       ElseResult |-> [kind |-> "IntLiteral", Value |-> "0",
       Base |-> 10]]]>>, From |-> Nil, Where |-> Nil, GroupBy |-> Nil]],
       \* 22: SELECT IFNULL(name, @a) FROM users
       [kind |-> "QueryStatement", Query |-> [kind |-> "Select",
       Results |-> <<[kind |-> "ExprSelectItem",
       Expr |-> [kind |-> "CallExpr", Func |-> [kind |-> "Path",
       Idents |-> <<[kind |-> "Ident", NamePos |-> 7,
       Name |-> "IFNULL"]>>], Args |-> <<[kind |-> "ExprArg",
       Expr |-> [kind |-> "Ident", NamePos |-> 14, Name |-> "name"]],
       [kind |-> "ExprArg", Expr |-> [kind |-> "Param", Atmark |-> 20,
       Name |-> "a"]]>>]]>>, From |-> [kind |-> "From",
       Source |-> [kind |-> "TableName", Table |-> [kind |-> "Ident",
       NamePos |-> 29, Name |-> "users"], As |-> Nil]], Where |-> Nil,
       GroupBy |-> Nil]],
       \* 23: SELECT LOWER(name) FROM users WHERE name IS NOT NULL
       [kind |-> "QueryStatement", Query |-> [kind |-> "Select",
       Results |-> <<[kind |-> "ExprSelectItem",
       Expr |-> [kind |-> "CallExpr", Func |-> [kind |-> "Path",
       Idents |-> <<[kind |-> "Ident", NamePos |-> 7,
       Name |-> "LOWER"]>>], Args |-> <<[kind |-> "ExprArg",
       Expr |-> [kind |-> "Ident", NamePos |-> 13,
       Name |-> "name"]]>>]]>>, From |-> [kind |-> "From",
       Source |-> [kind |-> "TableName", Table |-> [kind |-> "Ident",
       NamePos |-> 24, Name |-> "users"], As |-> Nil]],
       Where |-> [kind |-> "Where", Expr |-> [kind |-> "IsNullExpr",
       Null |-> 48, Not |-> TRUE, Left |-> [kind |-> "Ident",
       NamePos |-> 36, Name |-> "name"]]], GroupBy |-> Nil]],
       \* 24: SELECT (SELECT @a), @b
       [kind |-> "QueryStatement", Query |-> [kind |-> "Select",
       Results |-> <<[kind |-> "ExprSelectItem",
       Expr |-> [kind |-> "ScalarSubQuery", Lparen |-> 7,
       Query |-> [kind |-> "Select",
       Results |-> <<[kind |-> "ExprSelectItem",
       Expr |-> [kind |-> "Param", Atmark |-> 15, Name |-> "a"]]>>,
       From |-> Nil, Where |-> Nil, GroupBy |-> Nil]]],
       [kind |-> "ExprSelectItem", Expr |-> [kind |-> "Param",
       Atmark |-> 20, Name |-> "b"]]>>, From |-> Nil, Where |-> Nil,
       GroupBy |-> Nil]],
       \* 25: SELECT id FROM users ORDER BY name DESC
       [kind |-> "QueryStatement", Query |-> [kind |-> "Query", With |-> Nil,
       Query |-> [kind |-> "Select",
       Results |-> <<[kind |-> "ExprSelectItem",
       Expr |-> [kind |-> "Ident", NamePos |-> 7, Name |-> "id"]]>>,
       From |-> [kind |-> "From", Source |-> [kind |-> "TableName",
       Table |-> [kind |-> "Ident", NamePos |-> 15, Name |-> "users"],
       As |-> Nil]], Where |-> Nil, GroupBy |-> Nil],
       OrderBy |-> [kind |-> "OrderBy",
       Items |-> <<[kind |-> "OrderByItem", Expr |-> [kind |-> "Ident",
       NamePos |-> 30, Name |-> "name"], Dir |-> "DESC"]>>],
       Limit |-> Nil]],
       \* 26: SELECT id FROM users WHERE id = @a ORDER BY id LIMIT @b
       [kind |-> "QueryStatement", Query |-> [kind |-> "Query", With |-> Nil,
       Query |-> [kind |-> "Select",
       Results |-> <<[kind |-> "ExprSelectItem",
       Expr |-> [kind |-> "Ident", NamePos |-> 7, Name |-> "id"]]>>,
       From |-> [kind |-> "From", Source |-> [kind |-> "TableName",
       Table |-> [kind |-> "Ident", NamePos |-> 15, Name |-> "users"],
       As |-> Nil]], Where |-> [kind |-> "Where",
       Expr |-> [kind |-> "BinaryExpr", Op |-> "=",
       Left |-> [kind |-> "Ident", NamePos |-> 27, Name |-> "id"],
       Right |-> [kind |-> "Param", Atmark |-> 32, Name |-> "a"]]],
       GroupBy |-> Nil], OrderBy |-> [kind |-> "OrderBy",
       Items |-> <<[kind |-> "OrderByItem", Expr |-> [kind |-> "Ident",
       NamePos |-> 44, Name |-> "id"], Dir |-> ""]>>],
       Limit |-> [kind |-> "Limit", Count |-> [kind |-> "Param",
       Atmark |-> 53, Name |-> "b"], Offset |-> Nil]]],
       \* 27: SELECT id FROM users LIMIT @a OFFSET @b
       [kind |-> "QueryStatement", Query |-> [kind |-> "Query", With |-> Nil,
       Query |-> [kind |-> "Select",
       Results |-> <<[kind |-> "ExprSelectItem",
       Expr |-> [kind |-> "Ident", NamePos |-> 7, Name |-> "id"]]>>,
       From |-> [kind |-> "From", Source |-> [kind |-> "TableName",
       Table |-> [kind |-> "Ident", NamePos |-> 15, Name |-> "users"],
       As |-> Nil]], Where |-> Nil, GroupBy |-> Nil], OrderBy |-> Nil,
       Limit |-> [kind |-> "Limit", Count |-> [kind |-> "Param",
       Atmark |-> 27, Name |-> "a"], Offset |-> [kind |-> "Offset",
       Value |-> [kind |-> "Param", Atmark |-> 37, Name |-> "b"]]]]],
       \* 28: WITH c AS (SELECT @a AS id) SELECT id FROM c WHERE id = @b
       [kind |-> "QueryStatement", Query |-> [kind |-> "Query",
       With |-> [kind |-> "With", CTEs |-> <<[kind |-> "CTE",
       Name |-> [kind |-> "Ident", NamePos |-> 5, Name |-> "c"],
       QueryExpr |-> [kind |-> "Select", Results |-> <<[kind |-> "Alias",
       Expr |-> [kind |-> "Param", Atmark |-> 18, Name |-> "a"],
       As |-> [kind |-> "AsAlias", Alias |-> [kind |-> "Ident",
       NamePos |-> 24, Name |-> "id"]]]>>, From |-> Nil, Where |-> Nil,
       GroupBy |-> Nil]]>>], Query |-> [kind |-> "Select",
       Results |-> <<[kind |-> "ExprSelectItem",
       Expr |-> [kind |-> "Ident", NamePos |-> 35, Name |-> "id"]]>>,
       From |-> [kind |-> "From", Source |-> [kind |-> "TableName",
       Table |-> [kind |-> "Ident", NamePos |-> 43, Name |-> "c"],
       As |-> Nil]], Where |-> [kind |-> "Where",
       Expr |-> [kind |-> "BinaryExpr", Op |-> "=",
       Left |-> [kind |-> "Ident", NamePos |-> 51, Name |-> "id"],
       Right |-> [kind |-> "Param", Atmark |-> 56, Name |-> "b"]]],
       GroupBy |-> Nil], OrderBy |-> Nil, Limit |-> Nil]],
       \* 29: SELECT 1 UNION ALL SELECT 2
       [kind |-> "QueryStatement", Query |-> [kind |-> "CompoundQuery",
       Op |-> "UNION", AllOrDistinct |-> "ALL",
       Queries |-> <<[kind |-> "Select",
       Results |-> <<[kind |-> "ExprSelectItem",
       Expr |-> [kind |-> "IntLiteral", Value |-> "1", Base |-> 10]]>>,
       From |-> Nil, Where |-> Nil, GroupBy |-> Nil], [kind |-> "Select",
       Results |-> <<[kind |-> "ExprSelectItem",
       Expr |-> [kind |-> "IntLiteral", Value |-> "2", Base |-> 10]]>>,
       From |-> Nil, Where |-> Nil, GroupBy |-> Nil]>>]],
       \* 30: SELECT 1 UNION ALL SELECT 2 ORDER BY 1
       [kind |-> "QueryStatement", Query |-> [kind |-> "Query", With |-> Nil,
       Query |-> [kind |-> "CompoundQuery", Op |-> "UNION",
       AllOrDistinct |-> "ALL", Queries |-> <<[kind |-> "Select",
       Results |-> <<[kind |-> "ExprSelectItem",
       Expr |-> [kind |-> "IntLiteral", Value |-> "1", Base |-> 10]]>>,
       From |-> Nil, Where |-> Nil, GroupBy |-> Nil], [kind |-> "Select",
       Results |-> <<[kind |-> "ExprSelectItem",
       Expr |-> [kind |-> "IntLiteral", Value |-> "2", Base |-> 10]]>>,
       From |-> Nil, Where |-> Nil, GroupBy |-> Nil]>>],
       OrderBy |-> [kind |-> "OrderBy",
       Items |-> <<[kind |-> "OrderByItem",
       Expr |-> [kind |-> "IntLiteral", Value |-> "1", Base |-> 10],
       Dir |-> ""]>>], Limit |-> Nil]],
       \* 31: SELECT STRUCT<id INT64>(1)
       [kind |-> "QueryStatement", Query |-> [kind |-> "Select",
       Results |-> <<[kind |-> "ExprSelectItem",
       Expr |-> [kind |-> "TypedStructLiteral", Struct |-> 7,
       Fields |-> <<[kind |-> "StructField", Ident |-> [kind |-> "Ident",
       NamePos |-> 14, Name |-> "id"], Type |-> [kind |-> "SimpleType",
       Name |-> "INT64"]]>>, Values |-> <<[kind |-> "IntLiteral",
       Value |-> "1", Base |-> 10]>>]]>>, From |-> Nil, Where |-> Nil,
       GroupBy |-> Nil]],
       \* 32: SELECT STRUCT<INT64>(@a)
       [kind |-> "QueryStatement", Query |-> [kind |-> "Select",
       Results |-> <<[kind |-> "ExprSelectItem",
       Expr |-> [kind |-> "TypedStructLiteral", Struct |-> 7,
       Fields |-> <<[kind |-> "StructField", Ident |-> Nil,
       Type |-> [kind |-> "SimpleType", Name |-> "INT64"]]>>,
       Values |-> <<[kind |-> "Param", Atmark |-> 21, Name |-> "a"]>>]]>>,
       From |-> Nil, Where |-> Nil, GroupBy |-> Nil]],
       \* 33: SELECT STRUCT<id ARRAY<INT64>>([1])
       [kind |-> "QueryStatement", Query |-> [kind |-> "Select",
       Results |-> <<[kind |-> "ExprSelectItem",
       Expr |-> [kind |-> "TypedStructLiteral", Struct |-> 7,
       Fields |-> <<[kind |-> "StructField", Ident |-> [kind |-> "Ident",
       NamePos |-> 14, Name |-> "id"], Type |-> [kind |-> "ArrayType",
       Item |-> [kind |-> "SimpleType", Name |-> "INT64"]]]>>,
       Values |-> <<[kind |-> "ArrayLiteral",
       Values |-> <<[kind |-> "IntLiteral", Value |-> "1",
       Base |-> 10]>>]>>]]>>, From |-> Nil, Where |-> Nil,
       GroupBy |-> Nil]],
       \* 34: SELECT STRUCT(1 AS id, name) FROM users
       [kind |-> "QueryStatement", Query |-> [kind |-> "Select",
       Results |-> <<[kind |-> "ExprSelectItem",
       Expr |-> [kind |-> "TypelessStructLiteral", Struct |-> 7,
       Values |-> <<[kind |-> "Alias", Expr |-> [kind |-> "IntLiteral",
       Value |-> "1", Base |-> 10], As |-> [kind |-> "AsAlias",
       Alias |-> [kind |-> "Ident", NamePos |-> 19, Name |-> "id"]]],
       [kind |-> "ExprArg", Expr |-> [kind |-> "Ident", NamePos |-> 23,
       Name |-> "name"]]>>]]>>, From |-> [kind |-> "From",
       Source |-> [kind |-> "TableName", Table |-> [kind |-> "Ident",
       NamePos |-> 34, Name |-> "users"], As |-> Nil]], Where |-> Nil,
       GroupBy |-> Nil]],
       \* 35: SELECT (1, @a)
       [kind |-> "QueryStatement", Query |-> [kind |-> "Select",
       Results |-> <<[kind |-> "ExprSelectItem",
       Expr |-> [kind |-> "TupleStructLiteral", Lparen |-> 7,
       Values |-> <<[kind |-> "IntLiteral", Value |-> "1", Base |-> 10],
       [kind |-> "Param", Atmark |-> 11, Name |-> "a"]>>]]>>,
       From |-> Nil, Where |-> Nil, GroupBy |-> Nil]],
       \* 36: INSERT INTO users (id, name) VALUES (@a, @b)
       [kind |-> "Insert", TableName |-> [kind |-> "Path",
       Idents |-> <<[kind |-> "Ident", NamePos |-> 12,
       Name |-> "users"]>>], Columns |-> <<[kind |-> "Ident",
       NamePos |-> 19, Name |-> "id"], [kind |-> "Ident", NamePos |-> 23,
       Name |-> "name"]>>, Input |-> [kind |-> "ValuesInput",
       Rows |-> <<[kind |-> "ValuesRow",
       Exprs |-> <<[kind |-> "DefaultExpr", Default |-> FALSE,
       Expr |-> [kind |-> "Param", Atmark |-> 37, Name |-> "a"]],
       [kind |-> "DefaultExpr", Default |-> FALSE,
       Expr |-> [kind |-> "Param", Atmark |-> 41, Name |-> "b"]]>>]>>],
       ThenReturn |-> Nil],
       \* 37: INSERT INTO Users (Id) VALUES (DEFAULT)
       [kind |-> "Insert", TableName |-> [kind |-> "Path",
       Idents |-> <<[kind |-> "Ident", NamePos |-> 12,
       Name |-> "Users"]>>], Columns |-> <<[kind |-> "Ident",
       NamePos |-> 19, Name |-> "Id"]>>,
       Input |-> [kind |-> "ValuesInput",
       Rows |-> <<[kind |-> "ValuesRow",
       Exprs |-> <<[kind |-> "DefaultExpr", Default |-> TRUE,
       Expr |-> Nil]>>]>>], ThenReturn |-> Nil],
       \* 38: INSERT INTO users (id) VALUES (@a) THEN RETURN id
       [kind |-> "Insert", TableName |-> [kind |-> "Path",
       Idents |-> <<[kind |-> "Ident", NamePos |-> 12,
       Name |-> "users"]>>], Columns |-> <<[kind |-> "Ident",
       NamePos |-> 19, Name |-> "id"]>>,
       Input |-> [kind |-> "ValuesInput",
       Rows |-> <<[kind |-> "ValuesRow",
       Exprs |-> <<[kind |-> "DefaultExpr", Default |-> FALSE,
       Expr |-> [kind |-> "Param", Atmark |-> 31, Name |-> "a"]]>>]>>],
       ThenReturn |-> [kind |-> "ThenReturn",
       Items |-> <<[kind |-> "ExprSelectItem", Expr |-> [kind |-> "Ident",
       NamePos |-> 47, Name |-> "id"]]>>]],
       \* 39: INSERT INTO users (id) VALUES (1) THEN RETURN *
       [kind |-> "Insert", TableName |-> [kind |-> "Path",
       Idents |-> <<[kind |-> "Ident", NamePos |-> 12,
       Name |-> "users"]>>], Columns |-> <<[kind |-> "Ident",
       NamePos |-> 19, Name |-> "id"]>>,
       Input |-> [kind |-> "ValuesInput",
       Rows |-> <<[kind |-> "ValuesRow",
       Exprs |-> <<[kind |-> "DefaultExpr", Default |-> FALSE,
       Expr |-> [kind |-> "IntLiteral", Value |-> "1",
       Base |-> 10]]>>]>>], ThenReturn |-> [kind |-> "ThenReturn",
       Items |-> <<[kind |-> "Star", Star |-> 46]>>]],
       \* 40: INSERT INTO users (id) SELECT id FROM c WHERE id = @a
       [kind |-> "Insert", TableName |-> [kind |-> "Path",
       Idents |-> <<[kind |-> "Ident", NamePos |-> 12,
       Name |-> "users"]>>], Columns |-> <<[kind |-> "Ident",
       NamePos |-> 19, Name |-> "id"]>>,
       Input |-> [kind |-> "SubQueryInput", Query |-> [kind |-> "Select",
       Results |-> <<[kind |-> "ExprSelectItem",
       Expr |-> [kind |-> "Ident", NamePos |-> 30, Name |-> "id"]]>>,
       From |-> [kind |-> "From", Source |-> [kind |-> "TableName",
       Table |-> [kind |-> "Ident", NamePos |-> 38, Name |-> "c"],
       As |-> Nil]], Where |-> [kind |-> "Where",
       Expr |-> [kind |-> "BinaryExpr", Op |-> "=",
       Left |-> [kind |-> "Ident", NamePos |-> 46, Name |-> "id"],
       Right |-> [kind |-> "Param", Atmark |-> 51, Name |-> "a"]]],
       GroupBy |-> Nil]], ThenReturn |-> Nil],
       \* 41: UPDATE users SET name = @a WHERE id = @b THEN RETURN id + 1 AS c, @a
       [kind |-> "Update", TableName |-> [kind |-> "Path",
       Idents |-> <<[kind |-> "Ident", NamePos |-> 7,
       Name |-> "users"]>>], Updates |-> <<[kind |-> "UpdateItem",
       Path |-> <<[kind |-> "Ident", NamePos |-> 17, Name |-> "name"]>>,
       DefaultExpr |-> [kind |-> "DefaultExpr", Default |-> FALSE,
       Expr |-> [kind |-> "Param", Atmark |-> 24, Name |-> "a"]]]>>,
       Where |-> [kind |-> "Where", Expr |-> [kind |-> "BinaryExpr",
       Op |-> "=", Left |-> [kind |-> "Ident", NamePos |-> 33,
       Name |-> "id"], Right |-> [kind |-> "Param", Atmark |-> 38,
       Name |-> "b"]]], ThenReturn |-> [kind |-> "ThenReturn",
       Items |-> <<[kind |-> "Alias", Expr |-> [kind |-> "BinaryExpr",
       Op |-> "+", Left |-> [kind |-> "Ident", NamePos |-> 53,
       Name |-> "id"], Right |-> [kind |-> "IntLiteral", Value |-> "1",
       Base |-> 10]], As |-> [kind |-> "AsAlias",
       Alias |-> [kind |-> "Ident", NamePos |-> 63, Name |-> "c"]]],
       [kind |-> "ExprSelectItem", Expr |-> [kind |-> "Param",
       Atmark |-> 66, Name |-> "a"]]>>]],
       \* 42: UPDATE db.users SET name = DEFAULT WHERE id = 1
       [kind |-> "Update", TableName |-> [kind |-> "Path",
       Idents |-> <<[kind |-> "Ident", NamePos |-> 7, Name |-> "db"],
       [kind |-> "Ident", NamePos |-> 10, Name |-> "users"]>>],
       Updates |-> <<[kind |-> "UpdateItem", Path |-> <<[kind |-> "Ident",
       NamePos |-> 20, Name |-> "name"]>>,
       DefaultExpr |-> [kind |-> "DefaultExpr", Default |-> TRUE,
       Expr |-> Nil]]>>, Where |-> [kind |-> "Where",
       Expr |-> [kind |-> "BinaryExpr", Op |-> "=",
       Left |-> [kind |-> "Ident", NamePos |-> 41, Name |-> "id"],
       Right |-> [kind |-> "IntLiteral", Value |-> "1", Base |-> 10]]],
       ThenReturn |-> Nil],
       \* 43: DELETE FROM users WHERE id = @a
       [kind |-> "Delete", TableName |-> [kind |-> "Path",
       Idents |-> <<[kind |-> "Ident", NamePos |-> 12,
       Name |-> "users"]>>], Where |-> [kind |-> "Where",
       Expr |-> [kind |-> "BinaryExpr", Op |-> "=",
       Left |-> [kind |-> "Ident", NamePos |-> 24, Name |-> "id"],
       Right |-> [kind |-> "Param", Atmark |-> 29, Name |-> "a"]]],
       ThenReturn |-> Nil],
       \* 44: DELETE FROM users WHERE id = @a THEN RETURN users.*, name
       [kind |-> "Delete", TableName |-> [kind |-> "Path",
       Idents |-> <<[kind |-> "Ident", NamePos |-> 12,
       Name |-> "users"]>>], Where |-> [kind |-> "Where",
       Expr |-> [kind |-> "BinaryExpr", Op |-> "=",
       Left |-> [kind |-> "Ident", NamePos |-> 24, Name |-> "id"],
       Right |-> [kind |-> "Param", Atmark |-> 29, Name |-> "a"]]],
       ThenReturn |-> [kind |-> "ThenReturn",
       Items |-> <<[kind |-> "DotStar", Expr |-> [kind |-> "Ident",
       NamePos |-> 44, Name |-> "users"]], [kind |-> "ExprSelectItem",
       Expr |-> [kind |-> "Ident", NamePos |-> 53, Name |-> "name"]]>>]],
       \* 45: DELETE FROM users WHERE TRUE THEN RETURN *, 1
       [kind |-> "Delete", TableName |-> [kind |-> "Path",
       Idents |-> <<[kind |-> "Ident", NamePos |-> 12,
       Name |-> "users"]>>], Where |-> [kind |-> "Where",
       Expr |-> [kind |-> "BoolLiteral", ValuePos |-> 24,
       Value |-> TRUE]], ThenReturn |-> [kind |-> "ThenReturn",
       Items |-> <<[kind |-> "Star", Star |-> 41],
       [kind |-> "ExprSelectItem", Expr |-> [kind |-> "IntLiteral",
       Value |-> "1", Base |-> 10]]>>]],
       \* 46: SELECT id FROM users GROUP BY id HAVING id > @a
       [kind |-> "QueryStatement", Query |-> [kind |-> "Select",
       Results |-> <<[kind |-> "ExprSelectItem",
       Expr |-> [kind |-> "Ident", NamePos |-> 7, Name |-> "id"]]>>,
       From |-> [kind |-> "From", Source |-> [kind |-> "TableName",
       Table |-> [kind |-> "Ident", NamePos |-> 15, Name |-> "users"],
       As |-> Nil]], Where |-> Nil, GroupBy |-> [kind |-> "GroupBy",
       Exprs |-> <<[kind |-> "Ident", NamePos |-> 30, Name |-> "id"]>>],
       Having |-> [kind |-> "Having", Expr |-> [kind |-> "BinaryExpr",
       Op |-> ">", Left |-> [kind |-> "Ident", NamePos |-> 40,
       Name |-> "id"], Right |-> [kind |-> "Param", Atmark |-> 45,
       Name |-> "a"]]]]],
       \* 47: SELECT ifnull(@a, 0)
       [kind |-> "QueryStatement", Query |-> [kind |-> "Select",
       Results |-> <<[kind |-> "ExprSelectItem",
       Expr |-> [kind |-> "CallExpr", Func |-> [kind |-> "Path",
       Idents |-> <<[kind |-> "Ident", NamePos |-> 7,
       Name |-> "ifnull"]>>], Args |-> <<[kind |-> "ExprArg",
       Expr |-> [kind |-> "Param", Atmark |-> 14, Name |-> "a"]],
       [kind |-> "ExprArg", Expr |-> [kind |-> "IntLiteral",
       Value |-> "0", Base |-> 10]]>>]]>>, From |-> Nil, Where |-> Nil,
       GroupBy |-> Nil]],
       \* 48: SELECT NULLIF(@a, @b)
       [kind |-> "QueryStatement", Query |-> [kind |-> "Select",
       Results |-> <<[kind |-> "ExprSelectItem",
       Expr |-> [kind |-> "CallExpr", Func |-> [kind |-> "Path",
       Idents |-> <<[kind |-> "Ident", NamePos |-> 7,
       Name |-> "NULLIF"]>>], Args |-> <<[kind |-> "ExprArg",
       Expr |-> [kind |-> "Param", Atmark |-> 14, Name |-> "a"]],
       [kind |-> "ExprArg", Expr |-> [kind |-> "Param", Atmark |-> 18,
       Name |-> "b"]]>>]]>>, From |-> Nil, Where |-> Nil,
       GroupBy |-> Nil]],
       \* 49: SELECT Nullif(id, @a) FROM users WHERE if(@b, IfNull(@a, 0), 1) = 1
       [kind |-> "QueryStatement", Query |-> [kind |-> "Select",
       Results |-> <<[kind |-> "ExprSelectItem",
       Expr |-> [kind |-> "CallExpr", Func |-> [kind |-> "Path",
       Idents |-> <<[kind |-> "Ident", NamePos |-> 7,
       Name |-> "Nullif"]>>], Args |-> <<[kind |-> "ExprArg",
       Expr |-> [kind |-> "Ident", NamePos |-> 14, Name |-> "id"]],
       [kind |-> "ExprArg", Expr |-> [kind |-> "Param", Atmark |-> 18,
       Name |-> "a"]]>>]]>>, From |-> [kind |-> "From",
       Source |-> [kind |-> "TableName", Table |-> [kind |-> "Ident",
       NamePos |-> 27, Name |-> "users"], As |-> Nil]],
       Where |-> [kind |-> "Where", Expr |-> [kind |-> "BinaryExpr",
       Op |-> "=", Left |-> [kind |-> "IfExpr", If |-> 39,
       Expr |-> [kind |-> "Param", Atmark |-> 42, Name |-> "b"],
       TrueResult |-> [kind |-> "CallExpr", Func |-> [kind |-> "Path",
       Idents |-> <<[kind |-> "Ident", NamePos |-> 46,
       Name |-> "IfNull"]>>], Args |-> <<[kind |-> "ExprArg",
       Expr |-> [kind |-> "Param", Atmark |-> 53, Name |-> "a"]],
       [kind |-> "ExprArg", Expr |-> [kind |-> "IntLiteral",
       Value |-> "0", Base |-> 10]]>>],
       ElseResult |-> [kind |-> "IntLiteral", Value |-> "1",
       Base |-> 10]], Right |-> [kind |-> "IntLiteral", Value |-> "1",
       Base |-> 10]]], GroupBy |-> Nil]],
       \* 50: ALTER TABLE users ADD COLUMN age INT64 NOT NULL
       [kind |-> "AlterTable", Name |-> [kind |-> "Path",
       Idents |-> <<[kind |-> "Ident", NamePos |-> 12,
       Name |-> "users"]>>], TableAlteration |-> [kind |-> "AddColumn",
       Columns |-> <<[kind |-> "ColumnDef", Name |-> [kind |-> "Ident",
       NamePos |-> 29, Name |-> "age"],
       Type |-> [kind |-> "ScalarSchemaType", Name |-> "INT64"],
       NotNull |-> TRUE]>>]],
       \* 51: ALTER TABLE users DROP COLUMN Name
       [kind |-> "AlterTable", Name |-> [kind |-> "Path",
       Idents |-> <<[kind |-> "Ident", NamePos |-> 12,
       Name |-> "users"]>>], TableAlteration |-> [kind |-> "DropColumn",
       Names |-> <<[kind |-> "Ident", NamePos |-> 30, Name |-> "Name"]>>]],
       \* 52: ALTER TABLE users ALTER COLUMN id INT64
       [kind |-> "AlterTable", Name |-> [kind |-> "Path",
       Idents |-> <<[kind |-> "Ident", NamePos |-> 12,
       Name |-> "users"]>>], TableAlteration |-> [kind |-> "AlterColumn",
       Name |-> [kind |-> "Ident", NamePos |-> 31, Name |-> "id"],
       Alteration |-> [kind |-> "AlterColumnSetType",
       Type |-> [kind |-> "ScalarSchemaType", Name |-> "INT64"]]]],
       \* 53: ALTER TABLE users ALTER COLUMN id SET DEFAULT (1)
       [kind |-> "AlterTable", Name |-> [kind |-> "Path",
       Idents |-> <<[kind |-> "Ident", NamePos |-> 12,
       Name |-> "users"]>>], TableAlteration |-> [kind |-> "AlterColumn",
       Name |-> [kind |-> "Ident", NamePos |-> 31, Name |-> "id"],
       Alteration |-> [kind |-> "AlterColumnSetDefault",
       DefaultExpr |-> [kind |-> "IntLiteral", Value |-> "1",
       Base |-> 10]]]],
       \* 54: ALTER TABLE users ALTER COLUMN id DROP DEFAULT
       [kind |-> "AlterTable", Name |-> [kind |-> "Path",
       Idents |-> <<[kind |-> "Ident", NamePos |-> 12,
       Name |-> "users"]>>], TableAlteration |-> [kind |-> "AlterColumn",
       Name |-> [kind |-> "Ident", NamePos |-> 31, Name |-> "id"],
       Alteration |-> [kind |-> "AlterColumnDropDefault"]]],
       \* 55: ALTER TABLE users DROP CONSTRAINT c
       [kind |-> "AlterTable", Name |-> [kind |-> "Path",
       Idents |-> <<[kind |-> "Ident", NamePos |-> 12,
       Name |-> "users"]>>],
       TableAlteration |-> [kind |-> "DropConstraint",
       Name |-> [kind |-> "Ident", NamePos |-> 34, Name |-> "c"]]]
    >>

\* ---- one statement through the translator (parse.go, Parse) -----------------

\* stmt.sqlStartPos: the byte at which the statement's first token begins in
\* the file; 0 for a statement that opens the file
Offsets == {0, 100, 250}

\* a converter that keeps the numbers of the statement before
newConverter_kept(offset) ==
    [paramCount |-> paramCount, paramMap |-> paramMap, paramsByNum |-> paramsByNum,
     positionOffset |-> offset, panicked |-> FALSE]

\* &cc{paramMap: make(map[string]int), paramsByNum: make(map[int]string),
\*     positionOffset: int(stmt.sqlStartPos)}
newConverter(offset) ==
    [paramCount |-> 0, paramMap |-> <<>>, paramsByNum |-> <<>>,
     positionOffset |-> offset, panicked |-> FALSE]

\* the converter as the variables hold it
converter ==
    [paramCount |-> paramCount, paramMap |-> paramMap, paramsByNum |-> paramsByNum,
     positionOffset |-> positionOffset, panicked |-> convPc = "panicked"]

\* memefish.ParseStatement has returned node for a statement that begins at
\* byte positionOffset of the file
ConvInit ==
    /\ \E i \in 1..Len(Statements) : node = Statements[i]
    /\ positionOffset \in Offsets
    /\ paramCount = 0
    /\ paramMap = <<>>
    /\ paramsByNum = <<>>
    /\ out = Nil
    /\ convPc = "parsed"
    /\ SchemaIdle
    /\ ParseIdle
    /\ ErrIdle
    /\ UtilIdle

\* out := converter.convert(node); a placeholder at the root is skipped, any
\* other node is appended to stmts; a panic unwinds through Parse
Translate ==
    /\ convPc = "parsed"
    /\ LET returned(r) ==
               /\ paramCount' = r.st.paramCount
               /\ paramMap' = r.st.paramMap
               /\ paramsByNum' = r.st.paramsByNum
               /\ out' = IF r.st.panicked THEN Nil ELSE r.n
               /\ convPc' = IF r.st.panicked THEN "panicked"
                            ELSE IF r.n.kind = "TODO" THEN "skipped"
                            ELSE "appended"
       IN  returned(convert(node, newConverter(positionOffset)))
    /\ UNCHANGED <<node, positionOffset>>
    /\ UNCHANGED notConvVars

ConvNext == Translate

SpecConvert == ConvInit /\ [][ConvNext]_vars


\* ---- one tracker, interned into repeatedly (convert.go, cc and convertParam) --

\* the @names a statement may mention
ParamNames == {"a", "b", "c", "user_id"}

\* Parse has built a converter for a statement that opens the file; nothing
\* is interned yet
TrackerInit ==
    /\ node = Nil
    /\ positionOffset = 0
    /\ paramCount = 0
    /\ paramMap = <<>>
    /\ paramsByNum = <<>>
    /\ out = Nil
    /\ convPc = "tracking"
    /\ SchemaIdle
    /\ ParseIdle
    /\ ErrIdle
    /\ UtilIdle

\* c.convertParam(n) on the converter as it stands, for the next parameter the
\* traversal meets: an *ast.Param with its name and the byte of its @
Intern ==
    /\ convPc = "tracking"
    /\ \E name \in ParamNames, pos \in {7, 32} :
          LET param == [kind |-> "Param", Atmark |-> pos, Name |-> name]
              returned(n, r) ==
                  /\ node' = n
                  /\ out' = r.n
                  /\ paramCount' = r.st.paramCount
                  /\ paramMap' = r.st.paramMap
                  /\ paramsByNum' = r.st.paramsByNum
          IN  returned(param, convertParam(param, converter))
    /\ UNCHANGED <<positionOffset, convPc>>
    /\ UNCHANGED notConvVars

SpecTracker == TrackerInit /\ [][Intern]_vars
\* ---- statement splitter and Parse (parse.go) --------------------------------

(***************************************************************************)
(* The file is a sequence of lexemes: white space, a comment, a token that *)
(* is not a semicolon, a string or bytes literal with a semicolon in it, a *)
(* semicolon, or text the lexer rejects.  Only their kinds and byte        *)
(* lengths matter to the splitter.                                         *)
(***************************************************************************)
LexKinds == {"ws", "comment", "tok", "lit", ";", "bad"}

\* bytes of a lexeme: " ", "--c\n", "abc", "';'", ";", "'"
LexLen(k) ==
    CASE k = "ws" -> 1
      [] k = "comment" -> 4
      [] k = "tok" -> 3
      [] k = "lit" -> 3
      [] k = ";" -> 1
      [] k = "bad" -> 1

\* longest file of the model, in lexemes
MaxLexemes == 5

\* byte position at which lexeme i of buf begins; i = Len(buf) + 1 gives len(buf)
RECURSIVE LexPos(_, _)
LexPos(buf, i) == IF i <= 1 THEN 0 ELSE LexPos(buf, i - 1) + LexLen(buf[i - 1])

\* the lexer skips white space and comments
RECURSIVE skipSpace(_, _)
skipSpace(buf, i) ==
    IF i > Len(buf) \/ buf[i] \notin {"ws", "comment"} THEN i
    ELSE skipSpace(buf, i + 1)

\* the comments among lexemes i .. j-1, as the lexer attaches them to the
\* token that follows
RECURSIVE commentsIn(_, _, _)
commentsIn(buf, i, j) ==
    IF i >= j THEN <<>>
    ELSE (IF buf[i] = "comment"
          THEN <<[Pos |-> LexPos(buf, i), End |-> LexPos(buf, i + 1)]>>
          ELSE <<>>) \o commentsIn(buf, i + 1, j)

\* a lexer that ends a token at every semicolon character: the literal is
\* reported as a semicolon
NextToken_semicolonInLiteral(buf, i) ==
    LET j == skipSpace(buf, i)
    IN  [Kind |-> IF j > Len(buf) THEN "EOF" ELSE IF buf[j] = "lit" THEN ";" ELSE buf[j],
         Pos |-> LexPos(buf, j),
         End |-> IF j > Len(buf) THEN LexPos(buf, j) ELSE LexPos(buf, j + 1),
         Comments |-> commentsIn(buf, i, j),
         next |-> j + 1]

\* lexer.NextToken from lexeme i: the token the lexer then holds, a literal
\* being one token of a kind other than ";"; at the end of the file that is
\* TokenEOF, with Pos = End = len(buf)
NextToken(buf, i) ==
    LET j == skipSpace(buf, i)
    IN  [Kind |-> IF j > Len(buf) THEN "EOF" ELSE buf[j],
         Pos |-> LexPos(buf, j),
         End |-> IF j > Len(buf) THEN LexPos(buf, j) ELSE LexPos(buf, j + 1),
         Comments |-> commentsIn(buf, i, j),
         next |-> j + 1]

\* the comments left out of the statement's range
trackComments_ignored(comments, start) == start

\* the loop over tok.Comments: the earliest position including comments
RECURSIVE trackComments(_, _)
trackComments(comments, start) ==
    IF comments = <<>> THEN start
    ELSE trackComments(Tail(comments),
                       IF start = -1 \/ Head(comments).Pos < start
                       THEN Head(comments).Pos ELSE start)

\* strings.TrimSpace(content[from:tok.Pos]) as the byte range it keeps: the
\* white space at either end goes, comments stay.  first is the lexeme that
\* begins at from, term the terminating one
RECURSIVE trimSpace(_, _, _)
trimSpace(buf, first, term) ==
    IF term <= first THEN [from |-> LexPos(buf, first), to |-> LexPos(buf, first)]
    ELSE IF buf[term - 1] = "ws" THEN trimSpace(buf, first, term - 1)
    ELSE [from |-> LexPos(buf, first), to |-> LexPos(buf, term)]

\* the position the statement record ends at: the semicolon without it
endPos_semicolonExcluded(tok) == tok.Pos

\* the position the statement record ends at: for a semicolon its end, for
\* the end of the file tok.Pos
endPos(tok) == IF tok.Kind = ";" THEN tok.End ELSE tok.Pos

\* Parse has read the file and calls splitStatements
ParseInit ==
    /\ content \in UNION {[1..k -> LexKinds] : k \in 0..MaxLexemes}
    /\ lexIdx = 1
    /\ currentComments = <<>>
    /\ stmtStartPos = -1
    /\ firstTokenPos = -1
    /\ statements = <<>>
    /\ stmtIdx = 0
    /\ stmts = <<>>
    /\ parsePc = "splitting"
    /\ SchemaIdle
    /\ ConvIdle
    /\ ErrIdle
    /\ UtilIdle

\* lexer.NextToken fails: splitStatements and Parse return the error
LexError ==
    /\ parsePc = "splitting"
    /\ NextToken(content, lexIdx).Kind = "bad"
    /\ parsePc' = "error"
    /\ stmts' = <<>>
    /\ UNCHANGED <<content, lexIdx, currentComments, stmtStartPos, firstTokenPos,
                   statements, stmtIdx>>
    /\ UNCHANGED notParseVars

\* the loop of splitStatements without the reset of the comments and of the
\* start position after a semicolon
SplitStep_keepsComments ==
    /\ parsePc = "splitting"
    /\ LET tok == NextToken(content, lexIdx)
           comments == currentComments \o tok.Comments
           start1 == trackComments(tok.Comments, stmtStartPos)
           isFirst == tok.Kind # ";" /\ tok.Kind # "EOF" /\ firstTokenPos = -1
           first == IF isFirst THEN tok.Pos ELSE firstTokenPos
           start == IF isFirst /\ start1 = -1 THEN tok.Pos ELSE start1
           firstLexeme == CHOOSE i \in 1..(Len(content) + 1) :
                              LexPos(content, i) = first /\
                              (i <= Len(content) => content[i] \in {"tok", "lit"})
           stmtSQL == trimSpace(content, firstLexeme, tok.next - 1)
           emit == first # -1 /\ start # -1 /\ stmtSQL.from # stmtSQL.to
       IN  /\ tok.Kind # "bad"
           /\ lexIdx' = tok.next
           /\ IF tok.Kind \in {";", "EOF"}
              THEN /\ statements' =
                        IF emit
                        THEN Append(statements,
                                    [sql |-> stmtSQL, sqlStartPos |-> first,
                                     startPos |-> start, endPos |-> endPos(tok),
                                     comments |-> comments])
                        ELSE statements
                   /\ IF tok.Kind = "EOF"
                      THEN /\ parsePc' = "parsing"
                           /\ stmtIdx' = 1
                           /\ UNCHANGED <<currentComments, stmtStartPos, firstTokenPos>>
                      ELSE /\ currentComments' = comments
                           /\ stmtStartPos' = start
                           /\ firstTokenPos' = -1
                           /\ UNCHANGED <<parsePc, stmtIdx>>
              ELSE /\ currentComments' = comments
                   /\ stmtStartPos' = start
                   /\ firstTokenPos' = first
                   /\ UNCHANGED <<statements, parsePc, stmtIdx>>
    /\ UNCHANGED <<content, stmts>>
    /\ UNCHANGED notParseVars

\* one iteration of the loop of splitStatements
SplitStep ==
    /\ parsePc = "splitting"
    /\ LET tok == NextToken(content, lexIdx)
           comments == currentComments \o tok.Comments
           start1 == trackComments(tok.Comments, stmtStartPos)
           isFirst == tok.Kind # ";" /\ tok.Kind # "EOF" /\ firstTokenPos = -1
           first == IF isFirst THEN tok.Pos ELSE firstTokenPos
           start == IF isFirst /\ start1 = -1 THEN tok.Pos ELSE start1
           firstLexeme == CHOOSE i \in 1..(Len(content) + 1) :
                              LexPos(content, i) = first /\
                              (i <= Len(content) => content[i] \in {"tok", "lit"})
           stmtSQL == trimSpace(content, firstLexeme, tok.next - 1)
           emit == first # -1 /\ start # -1 /\ stmtSQL.from # stmtSQL.to
       IN  /\ tok.Kind # "bad"
           /\ lexIdx' = tok.next
           /\ IF tok.Kind \in {";", "EOF"}
              THEN /\ statements' =
                        IF emit
                        THEN Append(statements,
                                    [sql |-> stmtSQL, sqlStartPos |-> first,
                                     startPos |-> start, endPos |-> endPos(tok),
                                     comments |-> comments])
                        ELSE statements
                   /\ IF tok.Kind = "EOF"
                      THEN /\ parsePc' = "parsing"
                           /\ stmtIdx' = 1
                           /\ UNCHANGED <<currentComments, stmtStartPos, firstTokenPos>>
                      ELSE /\ currentComments' = <<>>
                           /\ stmtStartPos' = -1
                           /\ firstTokenPos' = -1
                           /\ UNCHANGED <<parsePc, stmtIdx>>
              ELSE /\ currentComments' = comments
                   /\ stmtStartPos' = start
                   /\ firstTokenPos' = first
                   /\ UNCHANGED <<statements, parsePc, stmtIdx>>
    /\ UNCHANGED <<content, stmts>>
    /\ UNCHANGED notParseVars

\* &sqlcast.RawStmt{Stmt: out, StmtLocation: ..., StmtLen: ...}
RawStmt(stmt) ==
    [Stmt |-> "out", StmtLocation |-> stmt.startPos,
     StmtLen |-> stmt.endPos - stmt.startPos]

\* the raw statement put in front of those before it
ParseAppend_prepends ==
    /\ parsePc = "parsing"
    /\ stmtIdx <= Len(statements)
    /\ stmts' = <<RawStmt(statements[stmtIdx])>> \o stmts
    /\ stmtIdx' = stmtIdx + 1
    /\ UNCHANGED <<content, lexIdx, currentComments, stmtStartPos, firstTokenPos,
                   statements, parsePc>>
    /\ UNCHANGED notParseVars

\* one iteration of the loop of Parse whose statement parses and translates
\* to a node that is not a placeholder
ParseAppend ==
    /\ parsePc = "parsing"
    /\ stmtIdx <= Len(statements)
    /\ stmts' = Append(stmts, RawStmt(statements[stmtIdx]))
    /\ stmtIdx' = stmtIdx + 1
    /\ UNCHANGED <<content, lexIdx, currentComments, stmtStartPos, firstTokenPos,
                   statements, parsePc>>
    /\ UNCHANGED notParseVars

\* one iteration whose statement translates to a placeholder: continue
ParseSkip ==
    /\ parsePc = "parsing"
    /\ stmtIdx <= Len(statements)
    /\ stmtIdx' = stmtIdx + 1
    /\ UNCHANGED <<content, lexIdx, currentComments, stmtStartPos, firstTokenPos,
                   statements, stmts, parsePc>>
    /\ UNCHANGED notParseVars

\* the error returned along with the raw statements made so far
ParseError_keepsStmts ==
    /\ parsePc = "parsing"
    /\ stmtIdx <= Len(statements)
    /\ parsePc' = "error"
    /\ UNCHANGED <<content, lexIdx, currentComments, stmtStartPos, firstTokenPos,
                   statements, stmtIdx, stmts>>
    /\ UNCHANGED notParseVars

\* one iteration whose statement memefish.ParseStatement rejects
ParseError ==
    /\ parsePc = "parsing"
    /\ stmtIdx <= Len(statements)
    /\ parsePc' = "error"
    /\ stmts' = <<>>
    /\ UNCHANGED <<content, lexIdx, currentComments, stmtStartPos, firstTokenPos,
                   statements, stmtIdx>>
    /\ UNCHANGED notParseVars

\* return stmts, nil
ParseReturn ==
    /\ parsePc = "parsing"
    /\ stmtIdx > Len(statements)
    /\ parsePc' = "returned"
    /\ UNCHANGED <<content, lexIdx, currentComments, stmtStartPos, firstTokenPos,
                   statements, stmtIdx, stmts>>
    /\ UNCHANGED notParseVars

ParseNext ==
    \/ LexError
    \/ SplitStep
    \/ ParseAppend
    \/ ParseSkip
    \/ ParseError
    \/ ParseReturn

SpecParse == ParseInit /\ [][ParseNext]_vars


\* ---- a call of Parse that keeps running ---------------------------------------

\* one iteration whose statement makes the translator panic (a typed struct
\* literal with an unnamed field or with a field type that is not simple):
\* the panic unwinds through Parse, which has no recover, and nothing is
\* returned
ParsePanic ==
    /\ parsePc = "parsing"
    /\ stmtIdx <= Len(statements)
    /\ parsePc' = "panicked"
    /\ stmts' = <<>>
    /\ UNCHANGED <<content, lexIdx, currentComments, stmtStartPos, firstTokenPos,
                   statements, stmtIdx>>
    /\ UNCHANGED notParseVars

\* Parse has read a file of fewer than MaxLexemes lexemes
LiveInit == ParseInit /\ Len(content) < MaxLexemes

\* Parse on a goroutine the scheduler keeps running: there is no cancellation
\* and no blocking call, so a step that can be taken is taken
SpecParseLive ==
    /\ LiveInit
    /\ [][ParseNext \/ ParsePanic]_vars
    /\ WF_vars(ParseNext \/ ParsePanic)

\* ---- the loop of Parse over the statements, with the translator (parse.go) --

\* the statement texts of the model: 0 is a text the dialect parser rejects,
\* any other number the text of that entry of Statements (a plain SELECT, two
\* with parameters, a UNION, a STRUCT literal that panics, an UPDATE)
Sqls == {0, 3, 11, 13, 29, 32, 41}

\* len(stmt.sql) of every statement of the model
SqlLen == 80

\* most statements in one file
MaxStatements == 2

\* memefish.ParseStatement("<input>", stmt.sql)
ParseStatement(sql) ==
    IF sql = 0 THEN [node |-> Nil, err |-> TRUE]
    ELSE [node |-> Statements[sql], err |-> FALSE]

\* what splitStatements returns for a file of the statements picks, each with
\* its comments before it, a semicolon after it and a line break between two
RECURSIVE statementsOf(_, _)
statementsOf(picks, from) ==
    IF picks = <<>> THEN <<>>
    ELSE <<[sql |-> Head(picks).sql,
            sqlStartPos |-> from + Head(picks).lead,
            startPos |-> from,
            endPos |-> from + Head(picks).lead + SqlLen + 1]>>
         \o statementsOf(Tail(picks), from + Head(picks).lead + SqlLen + 2)

\* splitStatements has returned statements; the loop of Parse begins.  lead is
\* the bytes of the metadata comments before a statement: none, or "--c\n"
LoopInit ==
    /\ \E k \in 1..MaxStatements :
          \E picks \in [1..k -> [sql : Sqls, lead : {0, 4}]] :
              statements = statementsOf(picks, 0)
    /\ stmtIdx = 1
    /\ stmts = <<>>
    /\ parsePc = "translating"
    /\ content = <<>>
    /\ lexIdx = 0
    /\ currentComments = <<>>
    /\ stmtStartPos = -1
    /\ firstTokenPos = -1
    /\ node = Nil
    /\ positionOffset = 0
    /\ paramCount = 0
    /\ paramMap = <<>>
    /\ paramsByNum = <<>>
    /\ out = Nil
    /\ convPc = "idle"
    /\ SchemaIdle
    /\ ErrIdle
    /\ UtilIdle

\* the loop body without the test for a placeholder at the root
Iterate_appendsPlaceholder ==
    /\ parsePc = "translating"
    /\ stmtIdx <= Len(statements)
    /\ LET failed ==
               /\ parsePc' = "error"
               /\ stmts' = <<>>
               /\ UNCHANGED <<stmtIdx, convVars>>
           converted(stmt, n, r) ==
               /\ node' = n
               /\ positionOffset' = stmt.sqlStartPos
               /\ paramCount' = r.st.paramCount
               /\ paramMap' = r.st.paramMap
               /\ paramsByNum' = r.st.paramsByNum
               /\ out' = IF r.st.panicked THEN Nil ELSE r.n
               /\ convPc' = IF r.st.panicked THEN "panicked"
                            ELSE IF r.n.kind = "TODO" THEN "skipped"
                            ELSE "appended"
               /\ parsePc' = IF r.st.panicked THEN "panicked" ELSE parsePc
               /\ stmtIdx' = IF r.st.panicked THEN stmtIdx ELSE stmtIdx + 1
               /\ stmts' = IF r.st.panicked THEN <<>>
                           ELSE Append(stmts, [RawStmt(stmt) EXCEPT !.Stmt = r.n])
           parsed(stmt, p) ==
               IF p.err THEN failed
               ELSE converted(stmt, p.node, convert(p.node, newConverter(stmt.sqlStartPos)))
           body(stmt) == parsed(stmt, ParseStatement(stmt.sql))
       IN  body(statements[stmtIdx])
    /\ UNCHANGED <<content, lexIdx, currentComments, stmtStartPos, firstTokenPos,
                   statements>>
    /\ UNCHANGED <<schemaVars, err, errOut, utilVars>>

\* one iteration of the loop of Parse: the dialect parser, a new converter,
\* the translation, and then continue, append, or return the error; a panic
\* of the translator unwinds through Parse
Iterate ==
    /\ parsePc = "translating"
    /\ stmtIdx <= Len(statements)
    /\ LET failed ==
               /\ parsePc' = "error"
               /\ stmts' = <<>>
               /\ UNCHANGED <<stmtIdx, convVars>>
           converted(stmt, n, r) ==
               /\ node' = n
               /\ positionOffset' = stmt.sqlStartPos
               /\ paramCount' = r.st.paramCount
               /\ paramMap' = r.st.paramMap
               /\ paramsByNum' = r.st.paramsByNum
               /\ out' = IF r.st.panicked THEN Nil ELSE r.n
               /\ convPc' = IF r.st.panicked THEN "panicked"
                            ELSE IF r.n.kind = "TODO" THEN "skipped"
                            ELSE "appended"
               /\ parsePc' = IF r.st.panicked THEN "panicked" ELSE parsePc
               /\ stmtIdx' = IF r.st.panicked THEN stmtIdx ELSE stmtIdx + 1
               /\ stmts' = IF r.st.panicked THEN <<>>
                           ELSE IF r.n.kind = "TODO" THEN stmts
                           ELSE Append(stmts, [RawStmt(stmt) EXCEPT !.Stmt = r.n])
           parsed(stmt, p) ==
               IF p.err THEN failed
               ELSE converted(stmt, p.node, convert(p.node, newConverter(stmt.sqlStartPos)))
           body(stmt) == parsed(stmt, ParseStatement(stmt.sql))
       IN  body(statements[stmtIdx])
    /\ UNCHANGED <<content, lexIdx, currentComments, stmtStartPos, firstTokenPos,
                   statements>>
    /\ UNCHANGED <<schemaVars, err, errOut, utilVars>>

\* return stmts, nil
LoopReturn ==
    /\ parsePc = "translating"
    /\ stmtIdx > Len(statements)
    /\ parsePc' = "returned"
    /\ UNCHANGED <<content, lexIdx, currentComments, stmtStartPos, firstTokenPos,
                   statements, stmtIdx, stmts>>
    /\ UNCHANGED notParseVars

SpecLoop == LoopInit /\ [][Iterate \/ LoopReturn]_vars

\* ---- convertError (parse.go) ------------------------------------------------

\* largest line and column the dialect parser reports in the model (0-based)
MaxPos == 2

\* most errors in one *memefish.MultiError
MaxErrors == 2

\* a *memefish.Error, and the first error of a *memefish.MultiError that has
\* one, become &sqlerr.Error{Message: "syntax error", Err: errors.New(Message),
\* Line: line, Column: col}, line and col being 1 without a Position; any
\* other error is wrapped by fmt.Errorf("spanner parser error: %w", err)
convertError(e) ==
    LET syntaxError(first) ==
            [type |-> "sqlerr.Error", Message |-> "syntax error", Err |-> first.Message,
             Line |-> IF first.hasPos THEN first.Line + 1 ELSE 1,
             Column |-> IF first.hasPos THEN first.Column + 1 ELSE 1]
    IN  IF e.type = "nil" THEN [type |-> "nil"]
        ELSE IF e.type = "Error" THEN syntaxError(e.errs[1])
        ELSE IF e.type = "MultiError" /\ Len(e.errs) > 0 THEN syntaxError(e.errs[1])
        ELSE [type |-> "fmt.wrapError", Message |-> "spanner parser error: %w", Err |-> e]

\* convertError is about to be called with err: nil, a *memefish.Error, a
\* *memefish.MultiError (a slice of *memefish.Error), or an error of another
\* type.  errs holds the *memefish.Error values: each its Message, and its
\* Position unless that is nil (hasPos FALSE, Line and Column then unused).
\* The errors after the first of a MultiError are drawn from three.
ErrInit ==
    /\ LET Messages == {"unexpected token", "unclosed string literal"}
           Positioned ==
               {[Message |-> m, hasPos |-> TRUE, Line |-> l, Column |-> c] :
                    m \in Messages, l \in 0..MaxPos, c \in 0..MaxPos}
           Unpositioned ==
               {[Message |-> m, hasPos |-> FALSE, Line |-> 0, Column |-> 0] :
                    m \in Messages}
           Later ==
               Unpositioned
                 \cup {[Message |-> "unexpected token", hasPos |-> TRUE,
                        Line |-> MaxPos, Column |-> 0]}
       IN  \/ err \in {[type |-> "nil", errs |-> <<>>], [type |-> "other", errs |-> <<>>]}
           \/ \E e \in Positioned \cup Unpositioned :
                  err = [type |-> "Error", errs |-> <<e>>]
           \/ err = [type |-> "MultiError", errs |-> <<>>]
           \/ \E k \in 1..MaxErrors :
                  \E e \in Positioned \cup Unpositioned, es \in [1..(k - 1) -> Later] :
                      err = [type |-> "MultiError", errs |-> <<e>> \o es]
    /\ errOut = [type |-> "idle"]
    /\ SchemaIdle
    /\ ConvIdle
    /\ ParseIdle
    /\ UtilIdle

\* errOut := convertError(err)
ConvertError ==
    /\ errOut.type = "idle"
    /\ errOut' = convertError(err)
    /\ UNCHANGED <<err, schemaVars, convVars, parseVars, utilVars>>

SpecError == ErrInit /\ [][ConvertError]_vars

\* ---- IsReservedKeyword (reserved.go) ---------------------------------------

\* token.IsKeyword of the dialect lexer: the upper-cased string is looked up
\* among the reserved words of the dialect.  The words and the strings that
\* have lower-case letters are those the tests of the package name.
IsKeyword(s) ==
    LET ToUpper ==
        CASE s = "select" -> "SELECT"
          [] s = "mycolumn" -> "MYCOLUMN"
          [] s = "user_id" -> "USER_ID"
          [] s = "customer_name" -> "CUSTOMER_NAME"
          [] s = "order_date" -> "ORDER_DATE"
          [] s = "_underscore" -> "_UNDERSCORE"
          [] s = "@param" -> "@PARAM"
          [] OTHER -> s
        Keywords == {
            "SELECT", "FROM", "WHERE", "CREATE", "JOIN", "LEFT", "RIGHT",
            "INNER", "OUTER", "AS", "AND", "OR", "NOT", "NULL", "TRUE",
            "FALSE", "CASE", "WHEN", "THEN", "ELSE", "END", "GROUP", "BY",
            "ORDER", "HAVING", "LIMIT", "UNION", "ALL", "DISTINCT",
            "BETWEEN", "IN", "EXISTS", "LIKE", "IS", "CAST", "EXTRACT",
            "INTERVAL", "ARRAY", "STRUCT", "WITH", "WINDOW", "PARTITION",
            "OVER", "ROWS", "RANGE", "UNBOUNDED", "PRECEDING", "FOLLOWING",
            "CURRENT", "EXCLUDE", "GROUPS", "NO", "RECURSIVE", "CROSS",
            "FULL", "NATURAL", "USING", "ON", "IF", "DEFAULT", "SET",
            "COLLATE", "ASC", "DESC", "NULLS", "ESCAPE", "INTERSECT",
            "EXCEPT", "FOR", "TABLESAMPLE", "CUBE", "ROLLUP", "GROUPING",
            "LATERAL", "UNNEST", "RESPECT", "IGNORE", "FETCH", "OF", "TO",
            "AT", "CONTAINS", "MERGE", "HASH", "WITHIN", "LOOKUP", "PROTO",
            "ENUM", "DEFINE", "ASSERT_ROWS_MODIFIED"}
    IN  ToUpper \in Keywords

\* IsReservedKeyword that knows the reserved words in upper case only
IsReservedKeyword_caseSensitive(s) == IsKeyword(s) /\ s # "select"

\* Parser.IsReservedKeyword
IsReservedKeyword(s) == IsKeyword(s)

\* a caller holds a string: a reserved word in either case, a word reserved
\* only in some contexts, an identifier, two words, or no word
ReservedInit ==
    /\ word \in {
            "SELECT", "select", "FROM", "WHERE", "CREATE", "JOIN", "LEFT",
            "RIGHT", "INNER", "OUTER", "AS", "AND", "OR", "NOT", "NULL",
            "TRUE", "FALSE", "CASE", "WHEN", "THEN", "ELSE", "END", "GROUP",
            "BY", "ORDER", "HAVING", "LIMIT", "UNION", "ALL", "DISTINCT",
            "BETWEEN", "IN", "EXISTS", "LIKE", "IS", "CAST", "EXTRACT",
            "INTERVAL", "ARRAY", "STRUCT", "WITH", "WINDOW", "PARTITION",
            "OVER", "ROWS", "RANGE", "UNBOUNDED", "PRECEDING", "FOLLOWING",
            "CURRENT", "EXCLUDE", "GROUPS", "NO", "RECURSIVE", "CROSS",
            "FULL", "NATURAL", "USING", "ON", "IF", "DEFAULT", "SET",
            "COLLATE", "ASC", "DESC", "NULLS", "ESCAPE", "INTERSECT",
            "EXCEPT", "FOR", "TABLESAMPLE", "CUBE", "ROLLUP", "GROUPING",
            "LATERAL", "UNNEST", "RESPECT", "IGNORE", "FETCH", "OF", "TO",
            "AT", "CONTAINS", "MERGE", "HASH", "WITHIN", "LOOKUP", "PROTO",
            "ENUM", "DEFINE", "ASSERT_ROWS_MODIFIED", "INSERT", "UPDATE",
            "DELETE", "DROP", "ALTER", "TABLE", "INDEX", "VIEW", "FUNCTION",
            "PROCEDURE", "TRIGGER", "MATCHED", "OTHERS", "TIES", "FIRST",
            "LAST", "ORDINALITY", "REPEATABLE", "SETS", "QUALIFY", "VALUE",
            "VALUES", "OFFSET", "mycolumn", "user_id", "customer_name",
            "order_date", "_underscore", "SELECT FROM", "ORDER BY", "",
            "123", "@param"}
    /\ reserved = <<>>
    /\ calls = <<>>
    /\ params = <<>>
    /\ SchemaIdle
    /\ ConvIdle
    /\ ParseIdle
    /\ ErrIdle

\* reserved := p.IsReservedKeyword(word)
Reserved ==
    /\ reserved = <<>>
    /\ reserved' = <<IsReservedKeyword(word)>>
    /\ UNCHANGED <<word, calls, params, schemaVars, convVars, parseVars, err, errOut>>

SpecReserved == ReservedInit /\ [][Reserved]_vars

\* ---- two concurrent calls of Parse, and the catalog of NewCatalog -----------

\* the functions of the catalog NewCatalog returns: the schema defaultSchema
\* builds, after its loop has added the SAFE. twin of every base function that
\* is neither a SAFE function nor an aggregate
NewCatalog ==
    LET base == SelectSeq(SeedFuncs,
                    LAMBDA fn : ~HasSafePrefix(fn.Name) /\ ~isAggregateFunction(fn.Name))
    IN  [DefaultSchema |-> "",
         Funcs |-> SeedFuncs \o [i \in 1..Len(base) |-> SafeFn(base[i])]]

\* a step of Parse whose stmts is one slice of the package, not a local
ParseStep_sharedStmts(s) ==
    IF s.stmtIdx > Len(s.statements) THEN [s EXCEPT !.pc = "returned"]
    ELSE LET shared == IF Len(calls[1].stmts) >= Len(calls[2].stmts)
                       THEN calls[1].stmts ELSE calls[2].stmts
             converted(stmt, r) ==
                 IF r.st.panicked THEN [s EXCEPT !.pc = "panicked", !.stmts = <<>>]
                 ELSE IF r.n.kind = "TODO" THEN [s EXCEPT !.stmtIdx = @ + 1]
                 ELSE [s EXCEPT !.stmtIdx = @ + 1,
                                !.stmts = Append(shared, [RawStmt(stmt) EXCEPT !.Stmt = r.n])]
             parsed(stmt, p) ==
                 IF p.err THEN [s EXCEPT !.pc = "error", !.stmts = <<>>]
                 ELSE converted(stmt, convert(p.node, newConverter(stmt.sqlStartPos)))
             body(stmt) == parsed(stmt, ParseStatement(stmt.sql))
         IN  body(s.statements[s.stmtIdx])

\* one step of a call of Parse on its own locals s (statements, the position
\* of the range loop, stmts): an iteration of the loop, or return stmts, nil
\* after the last.  Parser has no fields and the package no variables, so the
\* locals are all a step reads or writes.
ParseStep(s) ==
    IF s.stmtIdx > Len(s.statements) THEN [s EXCEPT !.pc = "returned"]
    ELSE LET converted(stmt, r) ==
                 IF r.st.panicked THEN [s EXCEPT !.pc = "panicked", !.stmts = <<>>]
                 ELSE IF r.n.kind = "TODO" THEN [s EXCEPT !.stmtIdx = @ + 1]
                 ELSE [s EXCEPT !.stmtIdx = @ + 1,
                                !.stmts = Append(@, [RawStmt(stmt) EXCEPT !.Stmt = r.n])]
             parsed(stmt, p) ==
                 IF p.err THEN [s EXCEPT !.pc = "error", !.stmts = <<>>]
                 ELSE converted(stmt, convert(p.node, newConverter(stmt.sqlStartPos)))
             body(stmt) == parsed(stmt, ParseStatement(stmt.sql))
         IN  body(s.statements[s.stmtIdx])

\* two calls of Parse, each past splitStatements with the statements of its
\* own file, and a catalog NewCatalog has returned
CallsInit ==
    /\ \E k1, k2 \in 1..MaxStatements :
          \E p1 \in [1..k1 -> [sql : {0, 11, 13, 29}, lead : {0}]],
             p2 \in [1..k2 -> [sql : {0, 11, 13, 29}, lead : {0}]] :
              calls = [c \in 1..2 |->
                          [statements |-> statementsOf(IF c = 1 THEN p1 ELSE p2, 0),
                           stmtIdx |-> 1, stmts |-> <<>>, pc |-> "translating"]]
    /\ funcs = NewCatalog.Funcs
    /\ baseIdx = Len(SeedFuncs) + 1
    /\ schemaPc = "returned"
    /\ ConvIdle
    /\ ParseIdle
    /\ ErrIdle
    /\ word = ""
    /\ reserved = <<>>
    /\ params = <<>>

\* the scheduler runs one step of either call
CallStep ==
    \E c \in 1..2 :
        /\ calls[c].pc = "translating"
        /\ calls' = [calls EXCEPT ![c] = ParseStep(calls[c])]
        /\ UNCHANGED <<schemaVars, convVars, parseVars, err, errOut, word, reserved, params>>

SpecCalls == CallsInit /\ [][CallStep]_vars
(***************************************************************************)
(* Properties of the catalog                                               *)
(***************************************************************************)

SeedIdx == 1..Len(SeedFuncs)

\* the returned catalog holds SAFE.<fn.Name> with fn's signature and nullable = true
HasSafeTwin(fn) ==
    \E j \in 1..Len(funcs) :
        /\ funcs[j].Name = SafeName(fn.Name)
        /\ funcs[j].Args = fn.Args
        /\ funcs[j].ReturnType = fn.ReturnType
        /\ funcs[j].ReturnTypeNullable = TRUE

\* the returned catalog holds no entry named SAFE.<name>
NoSafeEntry(name) == \A j \in 1..Len(funcs) : funcs[j].Name # SafeName(name)

\* C7 as stated: in the returned catalog every non-aggregate seeded entry
\* F(args) -> R has an entry SAFE.F with the same argument types, the same
\* return type and nullable = true, and no seeded aggregate has a SAFE. entry.
C7_EverySeedHasSafeTwin ==
    schemaPc = "returned" =>
        \A i \in SeedIdx :
            IF isAggregateFunction(SeedFuncs[i].Name)
            THEN NoSafeEntry(SeedFuncs[i].Name)
            ELSE HasSafeTwin(SeedFuncs[i])

\* C7 amended: in the returned catalog every seeded entry that is neither an
\* aggregate nor already named with a leading SAFE has an entry SAFE.F with
\* the same argument types, the same return type and nullable = true; no
\* seeded aggregate has a SAFE. entry, and no entry whose name already begins
\* with SAFE gets a second prefix.
C7_SafeSynthesis ==
    schemaPc = "returned" =>
        \A i \in SeedIdx :
            LET fn == SeedFuncs[i] IN
            IF isAggregateFunction(fn.Name) \/ HasSafePrefix(fn.Name)
            THEN NoSafeEntry(fn.Name)
            ELSE HasSafeTwin(fn)

\* the loop has returned, it synthesised SAFE.NET.HOST, skipped SAFE_ADD and COUNT
C7_Witness ==
    /\ schemaPc = "returned"
    /\ \E j \in 1..Len(funcs) : funcs[j].Name = <<"SAFE", "NET", "HOST">>
    /\ \E i \in SeedIdx : SeedFuncs[i].Name = <<"SAFE_ADD">>
    /\ \E i \in SeedIdx : SeedFuncs[i].Name = <<"COUNT">>
    /\ Len(funcs) > Len(SeedFuncs)


\* ---- C20 --------------------------------------------------------------------

\* C20: in the catalog defaultSchema returns, every entry whose name begins
\* with SAFE_ or SAFE., and every entry named REGEXP_EXTRACT, has
\* nullable = true.
C20_SafeAndRegexpExtractNullable ==
    schemaPc = "returned" =>
        \A j \in 1..Len(funcs) :
            (HasSafePrefix(funcs[j].Name) \/ funcs[j].Name = <<"REGEXP_EXTRACT">>)
                => funcs[j].ReturnTypeNullable = TRUE
\* ---- walking the two trees --------------------------------------------------

\* the fields of a translated node that hold a node; a list holds its nodes
\* in Items
OutNodeFieldNames ==
    {"Val", "Fields", "Lexpr", "Rexpr", "Args", "Func", "Names", "Expr", "Result",
     "Arg", "Defresult", "TypeName", "Subselect", "Elements", "Colnames",
     "Indirection", "Lidx", "Alias", "TargetList", "FromClause", "WhereClause",
     "GroupClause", "SortClause", "LimitCount", "LimitOffset", "ValuesLists",
     "WithClause", "Relation", "Relations", "Cols", "SelectStmt", "ReturningList",
     "UsingClause", "Node", "Ctes", "Ctequery", "Larg", "Rarg", "Quals",
     "Subquery", "Functions"}

OutFields(n) ==
    (DOMAIN n \cap OutNodeFieldNames) \cup (IF n.kind = "A_Expr" THEN {"Name"} ELSE {})

\* the fields of a dialect node that hold a node, and those that hold a
\* sequence of nodes
InNodeFieldNames ==
    {"Query", "Expr", "Left", "Right", "Where", "From", "Source", "GroupBy", "Having",
     "OrderBy", "Limit", "With", "Input", "ThenReturn", "TableName", "Func",
     "Cond", "Then", "Else", "Type", "Item", "RightStart", "RightEnd",
     "TrueResult", "ElseResult", "As", "Alias", "Index", "Ident", "DefaultExpr",
     "Table", "QueryExpr", "Part"}

InSeqFieldNames ==
    {"Results", "Idents", "Exprs", "Items", "Args", "Whens", "Values", "Fields",
     "Columns", "Rows", "Updates", "CTEs", "Path", "Queries"}

InNodeFields(n) ==
    (DOMAIN n \cap InNodeFieldNames)
      \cup (CASE n.kind = "Limit" -> {"Count", "Offset"}
              [] n.kind = "Offset" -> {"Value"}
              [] n.kind = "CTE" -> {"Name"}
              [] OTHER -> {})

InSeqFields(n) == DOMAIN n \cap InSeqFieldNames

\* the fields of a dialect node that hold a byte position
InPosFields(n) ==
    (DOMAIN n \cap {"Atmark", "Star", "Case", "When", "Cast", "Null", "OpPos",
                    "Extract", "If", "NamePos", "ValuePos", "Lparen", "Struct",
                    "Array", "Exists", "Interval"})
      \cup (IF n.kind = "CountStarExpr" THEN {"Count"} ELSE {})

\* every @name of a dialect tree, as <<byte position, name>>
RECURSIVE InParams(_)
InParams(n) ==
    (IF n.kind = "Param" THEN {<<n.Atmark, n.Name>>} ELSE {})
      \cup UNION {InParams(n[f]) : f \in InNodeFields(n)}
      \cup UNION {UNION {InParams(n[f][i]) : i \in DOMAIN n[f]} : f \in InSeqFields(n)}

\* every byte position the dialect parser reports in a tree
RECURSIVE InPositions(_)
InPositions(n) ==
    {n[f] : f \in InPosFields(n)}
      \cup UNION {InPositions(n[f]) : f \in InNodeFields(n)}
      \cup UNION {UNION {InPositions(n[f][i]) : i \in DOMAIN n[f]} : f \in InSeqFields(n)}

\* every parameter reference of a translated tree, as <<location, number>>
RECURSIVE OutParamRefs(_)
OutParamRefs(n) ==
    (IF n.kind = "ParamRef" THEN {<<n.Location, n.Number>>} ELSE {})
      \cup UNION {OutParamRefs(n[f]) : f \in OutFields(n)}
      \cup (IF n.kind = "List"
            THEN UNION {OutParamRefs(n.Items[i]) : i \in DOMAIN n.Items}
            ELSE {})

\* every location a translated tree retains: 0 is the unset field, -1 the
\* "no location" constant of the IN operator node
RECURSIVE OutLocations(_)
OutLocations(n) ==
    (IF "Location" \in DOMAIN n /\ n.Location \notin {0, -1} THEN {n.Location} ELSE {})
      \cup UNION {OutLocations(n[f]) : f \in OutFields(n)}
      \cup (IF n.kind = "List"
            THEN UNION {OutLocations(n.Items[i]) : i \in DOMAIN n.Items}
            ELSE {})

\* a translated tree with every location cleared
RECURSIVE StripLoc(_)
StripLoc(n) ==
    [f \in DOMAIN n |->
        IF f = "Location" THEN 0
        ELSE IF f \in OutFields(n) THEN StripLoc(n[f])
        ELSE IF f = "Items" /\ n.kind = "List"
             THEN [i \in DOMAIN n.Items |-> StripLoc(n.Items[i])]
        ELSE n[f]]

\* a dialect tree with its table, schema, catalog, column and alias
\* identifiers in lower case; function names and date parts are not
\* identifiers of that kind
RECURSIVE FoldCase(_)
FoldCase(n) ==
    [f \in DOMAIN n |->
        IF n.kind = "Ident" /\ f = "Name" THEN ToLower(n.Name)
        ELSE IF f \in InNodeFields(n) \ {"Func", "Part"} THEN FoldCase(n[f])
        ELSE IF f \in InSeqFields(n) THEN [i \in DOMAIN n[f] |-> FoldCase(n[f][i])]
        ELSE n[f]]

translated == convPc = "appended"

\* the SELECT a query statement is made of, Nil when it is something else
TopSelect ==
    IF node.kind # "QueryStatement" THEN Nil
    ELSE IF node.Query.kind = "Select" THEN node.Query
    ELSE IF node.Query.kind = "Query" /\ node.Query.Query.kind = "Select"
         THEN node.Query.Query
    ELSE Nil

IsDML == node.kind \in {"Insert", "Update", "Delete"}

\* ---- C1 ---------------------------------------------------------------------

NameAt(loc) == (CHOOSE p \in InParams(node) : p[1] = loc)[2]

\* C1: taking the emitted parameter references in source (byte) order, the
\* first occurrences carry 1, 2, ..., k, and two references carry the same
\* index exactly when they are the same name.
C1_ParamsNumberedInSourceOrder ==
    translated =>
        LET E == OutParamRefs(out)
        IN  /\ \A r \in E : \E p \in InParams(node) : p[1] = r[1]
            /\ \A r, s \in E : (NameAt(r[1]) = NameAt(s[1])) <=> (r[2] = s[2])
            /\ \A r \in E :
                  (\A s \in E : s[2] = r[2] => s[1] >= r[1])
                    => {s[2] : s \in {t \in E : t[1] < r[1]}} = 1..(r[2] - 1)

\* ---- C3 ---------------------------------------------------------------------

\* the list fields the analyzer walks unconditionally
ContainerFields(n) ==
    CASE n.kind = "SelectStmt" -> {"TargetList", "FromClause"}
      [] n.kind = "InsertStmt" -> {"Cols", "ReturningList"}
      [] n.kind = "UpdateStmt" -> {"Relations", "TargetList", "FromClause", "ReturningList"}
      [] n.kind = "DeleteStmt" -> {"Relations", "UsingClause", "ReturningList"}
      [] OTHER -> {}

\* the clauses that are lists
ListClauseFields(n) ==
    IF n.kind = "SelectStmt" THEN {"GroupClause", "SortClause"} ELSE {}

RECURSIVE ContainersPresent(_)
ContainersPresent(n) ==
    /\ \A f \in ContainerFields(n) : n[f] # Nil
    /\ \A f \in ListClauseFields(n) : n[f] = Nil \/ Len(n[f].Items) > 0
    /\ "WithClause" \in DOMAIN n =>
          n.WithClause = Nil \/ Len(n.WithClause.Ctes.Items) > 0
    /\ \A f \in OutFields(n) : ContainersPresent(n[f])
    /\ n.kind = "List" => \A i \in DOMAIN n.Items : ContainersPresent(n.Items[i])

\* C3: in every select, insert, update and delete node of a translated tree
\* the walked lists are present (empty when they have no items) and the
\* clauses are absent when they have no items.
C3_ListsPresentClausesAbsent == translated => ContainersPresent(out)

\* ---- C4 ---------------------------------------------------------------------

\* C4: convert returns a node for every dialect tree; it never panics.
C4_TranslatorTotal == convPc # "panicked"

\* ---- C5 ---------------------------------------------------------------------

\* C5: a statement and the same statement with its identifiers in lower case
\* translate to the same tree.
C5_IdentifierCaseInsensitive ==
    convPc \in {"appended", "skipped"} =>
        out = convert(FoldCase(node), newConverter(positionOffset)).n

\* ---- C6 ---------------------------------------------------------------------

\* C6: every location a translated tree retains is a position of the dialect
\* tree plus the offset of the statement in the file.
C6_LocationsAreFilePositions ==
    translated =>
        \A l \in OutLocations(out) : (l - positionOffset) \in InPositions(node)

\* ---- C8, C9 -----------------------------------------------------------------

\* C8: the returning list is what the SELECT projection rules give for the
\* items of THEN RETURN, locations aside; without THEN RETURN it is empty.
C8_ThenReturnIsProjection ==
    (translated /\ IsDML) =>
        IF node.ThenReturn = Nil THEN out.ReturningList = List(<<>>)
        ELSE StripLoc(out.ReturningList)
               = StripLoc(List(convertSelectItems(node.ThenReturn.Items, converter).ns))

\* the name the projection rules give the result target of an item
ProjectionName(item) ==
    CASE item.kind = "Alias" -> <<item.As.Alias.Name>>
      [] item.kind = "ExprSelectItem" /\ item.Expr.kind = "Ident" -> <<item.Expr.Name>>
      [] item.kind = "ExprSelectItem" /\ item.Expr.kind = "Path" ->
            <<item.Expr.Idents[Len(item.Expr.Idents)].Name>>
      [] OTHER -> NoStr

NamesFollowRules(items, targets) ==
    Len(items) = Len(targets.Items) =>
        \A i \in DOMAIN items : targets.Items[i].Name = ProjectionName(items[i])

\* C9: the result target of a bare column (or of a path) is named after the
\* column, that of expr AS a is named a, and any other has no name; in a
\* SELECT list and in a THEN RETURN list alike.
C9_ResultTargetNames ==
    translated =>
        /\ TopSelect # Nil => NamesFollowRules(TopSelect.Results, out.TargetList)
        /\ (IsDML /\ node.ThenReturn # Nil) =>
              NamesFollowRules(node.ThenReturn.Items, out.ReturningList)

\* ---- C10 --------------------------------------------------------------------

\* a result target whose value is a column reference with the wildcard among
\* its fields
IsStarTarget(t) ==
    /\ t.kind = "ResTarget"
    /\ t.Val.kind = "ColumnRef"
    /\ t.Val.Fields # Nil
    /\ \E j \in DOMAIN t.Val.Fields.Items : t.Val.Fields.Items[j] = A_Star

\* ... and nothing but the wildcard
IsBareStarTarget(t) == IsStarTarget(t) /\ Len(t.Val.Fields.Items) = 1

\* where a wildcard may stand: ctx is "fields" for the elements of the fields
\* list of a column reference
RECURSIVE NoStrayStar(_, _)
NoStrayStar(n, ctx) ==
    /\ n = A_Star => ctx = "fields"
    /\ \A f \in OutFields(n) :
          NoStrayStar(n[f], IF n.kind = "ColumnRef" /\ f = "Fields" THEN "columnref"
                            ELSE "other")
    /\ n.kind = "List" =>
          \A i \in DOMAIN n.Items :
              NoStrayStar(n.Items[i], IF ctx = "columnref" THEN "fields" ELSE "other")

\* C10: every * of a SELECT list or a THEN RETURN list is a result target
\* over a column reference over the wildcard, and the wildcard stands nowhere
\* but in the fields of a column reference.
C10_StarAlwaysWrapped ==
    translated =>
        /\ TopSelect # Nil =>
              \A i \in DOMAIN TopSelect.Results :
                  TopSelect.Results[i].kind = "Star"
                    => IsStarTarget(out.TargetList.Items[i])
        /\ (IsDML /\ node.ThenReturn # Nil) =>
              Cardinality({i \in DOMAIN node.ThenReturn.Items :
                              node.ThenReturn.Items[i].kind = "Star"})
                = Cardinality({j \in DOMAIN out.ReturningList.Items :
                                  IsBareStarTarget(out.ReturningList.Items[j])})
        /\ NoStrayStar(out, "other")

C10_Witness ==
    /\ translated
    /\ IsDML
    /\ node.ThenReturn # Nil
    /\ \E i \in DOMAIN node.ThenReturn.Items : node.ThenReturn.Items[i].kind = "Star"
    /\ \E j \in DOMAIN out.ReturningList.Items :
          IsBareStarTarget(out.ReturningList.Items[j])


\* ---- ExtractParameters (utils.go) -------------------------------------------

\* the fields by which ast.Inspect reaches the children of a dialect node, in
\* the order it visits them: the order of the fields of every struct of the
\* dialect AST, which is the order of their text
InspectOrder ==
    <<"With", "TableName", "Table", "Columns", "Updates", "Path",
      "DefaultExpr", "Results", "From", "Source", "Name", "QueryExpr",
      "Query", "Queries", "CTEs", "Func", "Args", "Part", "Left", "Expr",
      "Right", "RightStart", "RightEnd", "Cond", "Then", "TrueResult",
      "ElseResult", "Whens", "Else", "As", "Alias", "Ident", "Type", "Item",
      "Fields", "Values", "Exprs", "Rows", "Idents", "Index", "Input",
      "Where", "GroupBy", "Having", "OrderBy", "Items", "Limit", "Count",
      "Offset", "Value", "ThenReturn">>

\* ExtractParameters whose callback stops at the first parameter of a node
RECURSIVE ExtractParameters_firstOnly(_)
ExtractParameters_firstOnly(n) ==
    LET RECURSIVE ofNodes(_, _), ofFields(_)
        ofNodes(ns, i) ==
            IF i > Len(ns) THEN <<>>
            ELSE ExtractParameters_firstOnly(ns[i]) \o ofNodes(ns, i + 1)
        ofFields(fs) ==
            IF fs = <<>> THEN <<>>
            ELSE LET first == IF Head(fs) \in InSeqFields(n) THEN ofNodes(n[Head(fs)], 1)
                              ELSE ExtractParameters_firstOnly(n[Head(fs)])
                 IN  IF first # <<>> THEN first ELSE ofFields(Tail(fs))
    IN  IF n.kind = "Param" THEN <<[Name |-> n.Name, Position |-> n.Atmark]>>
        ELSE ofFields(SelectSeq(InspectOrder,
                                LAMBDA f : f \in InNodeFields(n) \cup InSeqFields(n)))

\* ExtractParameters: ast.Inspect calls the callback on the node and then, as
\* the callback returns true, on every child in order; the callback appends
\* Parameter{Name, Position} for every *ast.Param.  Inspect does not call it
\* on the children of a nil node.
RECURSIVE ExtractParameters(_)
ExtractParameters(n) ==
    LET RECURSIVE ofNodes(_, _), ofFields(_)
        ofNodes(ns, i) ==
            IF i > Len(ns) THEN <<>>
            ELSE ExtractParameters(ns[i]) \o ofNodes(ns, i + 1)
        ofFields(fs) ==
            IF fs = <<>> THEN <<>>
            ELSE (IF Head(fs) \in InSeqFields(n) THEN ofNodes(n[Head(fs)], 1)
                  ELSE ExtractParameters(n[Head(fs)]))
                 \o ofFields(Tail(fs))
    IN  (IF n.kind = "Param" THEN <<[Name |-> n.Name, Position |-> n.Atmark]>>
         ELSE <<>>)
          \o ofFields(SelectSeq(InspectOrder,
                                LAMBDA f : f \in InNodeFields(n) \cup InSeqFields(n)))

\* params := ExtractParameters(node), for the AST of a statement
Extract ==
    /\ convPc = "parsed"
    /\ params = <<>>
    /\ params' = <<ExtractParameters(node)>>
    /\ UNCHANGED <<schemaVars, convVars, parseVars, err, errOut, calls, word, reserved>>

SpecExtract == ConvInit /\ [][Extract]_vars
\* ---- C2 ---------------------------------------------------------------------

Max(S) == CHOOSE x \in S : \A y \in S : y <= x

Min(S) == CHOOSE x \in S : \A y \in S : x <= y

\* the lexemes that end a statement: each semicolon, and the end of the file
Terminators(buf) == {t \in 1..(Len(buf) + 1) : t = Len(buf) + 1 \/ buf[t] = ";"}

\* the lexemes between the terminator before t and t
Segment(buf, t) == (Max({s \in 0..(t - 1) : s = 0 \/ buf[s] = ";"}) + 1)..(t - 1)

\* the terminators that end a statement with a body
StatementEnds(buf) ==
    {t \in Terminators(buf) : \E k \in Segment(buf, t) : buf[k] \in {"tok", "lit"}}

\* comments and body: what is not white space
Inked(buf, t) == {k \in Segment(buf, t) : buf[k] # "ws"}

\* the byte at which the first comment, or else the body, of the statement
\* ended by t begins
RangeStart(buf, t) == LexPos(buf, Min(Inked(buf, t)))

\* the byte after the semicolon; for a statement ended by the end of the file
\* the byte after its body
RangeEndAtBody(buf, t) ==
    IF t <= Len(buf) THEN LexPos(buf, t + 1) ELSE LexPos(buf, Max(Inked(buf, t)) + 1)

\* the byte after the semicolon; for a statement ended by the end of the file
\* the end of the file
RangeEndAtEOF(buf, t) ==
    IF t <= Len(buf) THEN LexPos(buf, t + 1) ELSE LexPos(buf, Len(buf) + 1)

RawRange(raw) == <<raw.StmtLocation, raw.StmtLocation + raw.StmtLen>>

RawInOrder ==
    \A i, j \in DOMAIN stmts :
        i < j => stmts[i].StmtLocation + stmts[i].StmtLen <= stmts[j].StmtLocation

\* C2 as claimed: the bytes of every raw statement are its comments, its body
\* and its semicolon, and a statement ended by the end of the file carries
\* nothing after its body.
C2_RangeEndsAtBody ==
    parsePc = "returned" =>
        /\ \A i \in DOMAIN stmts :
              \E t \in StatementEnds(content) :
                  RawRange(stmts[i]) = <<RangeStart(content, t), RangeEndAtBody(content, t)>>
        /\ RawInOrder

\* C2: the bytes of every raw statement begin at its first comment, or at
\* its body when no comment precedes it, and end after its semicolon; a
\* statement ended by the end of the file runs to the end of the file.
C2_RangeExact ==
    /\ parsePc \in {"parsing", "returned"} =>
          Len(statements) = Cardinality(StatementEnds(content))
    /\ parsePc = "returned" =>
          /\ \A i \in DOMAIN stmts :
                \E t \in StatementEnds(content) :
                    RawRange(stmts[i]) = <<RangeStart(content, t), RangeEndAtEOF(content, t)>>
          /\ RawInOrder

\* a file whose last statement has no semicolon and is followed by white space
C2_Witness ==
    /\ parsePc = "returned"
    /\ Len(stmts) >= 1
    /\ content[Len(content)] = "ws"
    /\ (Len(content) + 1) \in StatementEnds(content)
    /\ stmts[Len(stmts)].StmtLocation + stmts[Len(stmts)].StmtLen
          = LexPos(content, Len(content) + 1)


\* ---- C11 --------------------------------------------------------------------

\* paramMap and paramsByNum are inverse to one another, and the numbers in use
\* are 1 .. paramCount
TrackerMapsInverse ==
    /\ DOMAIN paramsByNum = 1..paramCount
    /\ \A i \in DOMAIN paramsByNum :
          paramsByNum[i] \in DOMAIN paramMap /\ paramMap[paramsByNum[i]] = i
    /\ \A name \in DOMAIN paramMap :
          paramMap[name] \in DOMAIN paramsByNum /\ paramsByNum[paramMap[name]] = name

\* one call of convertParam: a name met before gets the number it has and the
\* tracker stays as it is; a new name gets paramCount + 1; numbers handed out
\* earlier never change; the reverse lookup of the returned number is the name
InternStep ==
    /\ \A name \in DOMAIN paramMap :
          name \in DOMAIN paramMap' /\ paramMap'[name] = paramMap[name]
    /\ IF node'.Name \in DOMAIN paramMap
       THEN /\ out'.Number = paramMap[node'.Name]
            /\ UNCHANGED <<paramCount, paramMap, paramsByNum>>
       ELSE /\ out'.Number = paramCount + 1
            /\ paramCount' = paramCount + 1
            /\ paramMap'[node'.Name] = out'.Number
    /\ paramsByNum'[out'.Number] = node'.Name

\* C11: on one tracker, convertParam returns for a name met before the number
\* returned for it earlier, and for a new name the counter incremented by one,
\* the first number being 1; the name-to-number and number-to-name maps are
\* inverse to one another over the numbers 1 .. paramCount, so the reverse
\* lookup of the number returned for a name is that name.
C11_InternIsStableAndDense ==
    /\ (paramCount = 0 /\ paramMap = <<>> /\ paramsByNum = <<>>)
    /\ [](convPc = "tracking" => TrackerMapsInverse)
    /\ [][convPc = "tracking" => InternStep]_vars

\* a name interned again after another name was interned after it
C11_Witness ==
    /\ convPc = "tracking"
    /\ paramCount >= 2
    /\ node.kind = "Param"
    /\ out.Number < paramCount
    /\ paramMap[node.Name] = out.Number

\* ---- C12 --------------------------------------------------------------------

\* a tracker with nothing interned
FreshTracker(offset) ==
    [paramCount |-> 0, paramMap |-> <<>>, paramsByNum |-> <<>>,
     positionOffset |-> offset, panicked |-> FALSE]

\* the numbers a translated tree refers to
ParamNumbers(n) == {r[2] : r \in OutParamRefs(n)}

\* the @names of a dialect tree
ParamNamesOf(n) == {p[2] : p \in InParams(n)}

\* an iteration of the loop that translated a statement: the numbers are those
\* the statement gets when it is translated on its own, only its own names are
\* interned, and number 1 is the first handed out
StatementTrackedAlone ==
    stmtIdx' = stmtIdx + 1 =>
        LET alone == convert(node', FreshTracker(positionOffset'))
        IN  /\ out' = alone.n
            /\ paramCount' = alone.st.paramCount
            /\ paramMap' = alone.st.paramMap
            /\ paramsByNum' = alone.st.paramsByNum
            /\ DOMAIN paramMap' \subseteq ParamNamesOf(node')
            /\ DOMAIN paramsByNum' = 1..paramCount'
            /\ ParamNumbers(out') \subseteq 1..paramCount'
            /\ (ParamNumbers(out') # {} => 1 \in ParamNumbers(out'))

\* C12: within one Parse call every statement is translated with a tracker of
\* its own: the numbers assigned in a statement are those it gets when it is
\* the only statement of the file, whatever parameters the statements before
\* it have, and the first parameter translated in it is numbered 1.
C12_FreshTrackerPerStatement == [][StatementTrackedAlone]_vars

\* the second statement numbers @b before @a, after a first statement that
\* numbered @a before @b
C12_Witness ==
    /\ Len(statements) = 2
    /\ stmtIdx = 3
    /\ statements[1].sql = 11
    /\ statements[2].sql = 13
    /\ Len(stmts) = 2
    /\ paramMap = [a |-> 2, b |-> 1]
    /\ ParamNumbers(stmts[1].Stmt) = {1, 2}
    /\ ParamNumbers(stmts[2].Stmt) = {1, 2}

\* ---- C19 --------------------------------------------------------------------

\* the statement's root translates to a placeholder
RootIsPlaceholder(stmt) ==
    /\ stmt.sql # 0
    /\ convert(Statements[stmt.sql], FreshTracker(stmt.sqlStartPos)).n.kind = "TODO"

\* the records whose root is not a placeholder, in their order
RECURSIVE Kept(_)
Kept(ss) ==
    IF ss = <<>> THEN <<>>
    ELSE (IF RootIsPlaceholder(Head(ss)) THEN <<>> ELSE <<Head(ss)>>) \o Kept(Tail(ss))

\* the raw statements are those of the kept records, each with the location
\* and the length of its own record
KeptReturned ==
    LET kept == Kept(statements)
    IN  /\ Len(stmts) = Len(kept)
        /\ \A i \in DOMAIN stmts :
              /\ stmts[i].Stmt.kind # "TODO"
              /\ stmts[i].StmtLocation = kept[i].startPos
              /\ stmts[i].StmtLen = kept[i].endPos - kept[i].startPos

\* the iteration over a statement whose root is a placeholder goes on to the
\* next statement with stmts as it was
PlaceholderSkipped ==
    (/\ parsePc = "translating"
     /\ stmtIdx <= Len(statements)
     /\ stmtIdx' # stmtIdx
     /\ RootIsPlaceholder(statements[stmtIdx]))
        => /\ parsePc' = "translating"
           /\ stmtIdx' = stmtIdx + 1
           /\ stmts' = stmts

\* C19: a statement whose root translates to a placeholder is left out of
\* what Parse returns and raises no error, and every other statement of the
\* file is returned with its own location and length.
C19_PlaceholderRootSkipped ==
    /\ [](parsePc = "returned" => KeptReturned)
    /\ [][PlaceholderSkipped]_vars

\* a UNION, skipped, before a statement that is returned
C19_Witness ==
    /\ parsePc = "returned"
    /\ Len(statements) = 2
    /\ RootIsPlaceholder(statements[1])
    /\ Len(stmts) = 1
    /\ stmts[1].StmtLocation = statements[2].startPos
    /\ stmts[1].StmtLocation > 0

\* ---- C13 --------------------------------------------------------------------

\* splitStatements has returned
Split == parsePc \in {"parsing", "returned"}

\* the literals of the file
Literals(buf) == {k \in DOMAIN buf : buf[k] = "lit"}

\* the byte after terminator t: after the semicolon, or the end of the file
ByteAfter(buf, t) == IF t <= Len(buf) THEN LexPos(buf, t + 1) ELSE LexPos(buf, Len(buf) + 1)

\* C13: a semicolon inside a string or bytes literal does not end the
\* statement around it: every statement ends at a token of kind ";" or at the
\* end of the file, there is one statement for each of these that has a body
\* before it, and every literal lies whole inside the text of one statement.
C13_SemicolonInLiteralDoesNotSplit ==
    Split =>
        /\ Len(statements) = Cardinality(StatementEnds(content))
        /\ \A i \in DOMAIN statements :
              \E t \in StatementEnds(content) :
                  statements[i].endPos = ByteAfter(content, t)
        /\ \A k \in Literals(content) :
              \E i \in DOMAIN statements :
                  /\ statements[i].sql.from <= LexPos(content, k)
                  /\ LexPos(content, k + 1) <= statements[i].sql.to

\* a literal between two tokens of a statement that a second statement follows
C13_Witness ==
    /\ parsePc = "returned"
    /\ Len(stmts) = 2
    /\ Len(content) = 5
    /\ content[1] = "tok"
    /\ content[2] = "lit"
    /\ content[3] = "tok"
    /\ content[4] = ";"
    /\ stmts[1].StmtLen = 10

\* ---- C14 --------------------------------------------------------------------

\* the statement record a raw statement was made of
RecordOf(raw) ==
    CHOOSE i \in DOMAIN statements : RawStmt(statements[i]) = raw

\* the lexeme of the first token of the statement ended by terminator t
FirstToken(buf, t) == Min({k \in Segment(buf, t) : buf[k] \in {"tok", "lit"}})

\* the comments lexed since the terminator before t, those the lexer attaches
\* to t itself included
CommentsOf(buf, t) == {k \in Segment(buf, t) : buf[k] = "comment"}

\* the location the claim names for the statement ended by t
EarliestOf(buf, t) ==
    LexPos(buf, Min(CommentsOf(buf, t) \cup {FirstToken(buf, t)}))

\* C14: for every raw statement Parse returns, location <= byte of the
\* statement's first token <= location + length, and the location is the byte
\* of the earliest comment lexed since the terminator before, or of the first
\* token, whichever is earlier.
C14_LocationBracketsFirstToken ==
    parsePc = "returned" =>
        \A r \in DOMAIN stmts :
            /\ \E i \in DOMAIN statements : RawStmt(statements[i]) = stmts[r]
            /\ LET stmt == statements[RecordOf(stmts[r])]
                   t == CHOOSE u \in StatementEnds(content) :
                            ByteAfter(content, u) = stmt.endPos
               IN  /\ stmts[r].StmtLocation <= stmt.sqlStartPos
                   /\ stmt.sqlStartPos <= stmts[r].StmtLocation + stmts[r].StmtLen
                   /\ stmt.sqlStartPos = LexPos(content, FirstToken(content, t))
                   /\ stmts[r].StmtLocation = EarliestOf(content, t)

\* a second statement with a comment before its first token
C14_Witness ==
    /\ parsePc = "returned"
    /\ Len(stmts) = 2
    /\ content = <<"tok", ";", "comment", "tok">>
    /\ stmts[2].StmtLocation = 4
    /\ statements[2].sqlStartPos = 8

\* ---- C15 --------------------------------------------------------------------

\* C15: the raw statements Parse returns are in the order of the source: their
\* locations increase strictly, and the byte ranges of any two of them do not
\* overlap, statements between them having been skipped or not.
C15_SourceOrder ==
    parsePc = "returned" =>
        \A i, j \in DOMAIN stmts :
            i < j =>
                /\ stmts[i].StmtLocation < stmts[j].StmtLocation
                /\ stmts[i].StmtLen > 0
                /\ stmts[i].StmtLocation + stmts[i].StmtLen <= stmts[j].StmtLocation

\* the first and the third statement of a file, the second skipped
C15_Witness ==
    /\ parsePc = "returned"
    /\ Len(statements) = 3
    /\ Len(stmts) = 2
    /\ stmts[1].StmtLocation = statements[1].startPos
    /\ stmts[2].StmtLocation = statements[3].startPos

\* ---- C16 --------------------------------------------------------------------

\* a file of white space, comments and semicolons only
NoToken(buf) == \A k \in DOMAIN buf : buf[k] \in {"ws", "comment", ";"}

\* the byte at which the segment ended by terminator t begins
SegmentStart(buf, t) ==
    LexPos(buf, Max({s \in 0..(t - 1) : s = 0 \/ buf[s] = ";"}) + 1)

\* the record begins inside the segment of its own terminator, and so does
\* each of its comments
OwnCommentsOnly(stmt) ==
    \E t \in StatementEnds(content) :
        /\ stmt.endPos = ByteAfter(content, t)
        /\ SegmentStart(content, t) <= stmt.startPos
        /\ \A c \in DOMAIN stmt.comments :
              SegmentStart(content, t) <= stmt.comments[c].Pos

\* C16: a file that is empty or holds white space, comments and semicolons
\* only makes Parse return no statement and no error; a segment between
\* terminators without a token emits no record, and its comments are not
\* handed to the statement after it.
C16_EmptySegmentsEmitNothing ==
    /\ NoToken(content) =>
          /\ parsePc \notin {"error", "panicked"}
          /\ statements = <<>>
          /\ stmts = <<>>
    /\ Split =>
          /\ Len(statements) = Cardinality(StatementEnds(content))
          /\ \A i \in DOMAIN statements : OwnCommentsOnly(statements[i])

\* a comment and a semicolon before the only statement of the file
C16_Witness ==
    /\ parsePc = "returned"
    /\ content = <<"comment", ";", "ws", "tok">>
    /\ Len(stmts) = 1
    /\ statements[1].comments = <<>>
    /\ stmts[1].StmtLocation = 6

\* ---- C17 --------------------------------------------------------------------

\* C17: when the lexer fails anywhere in the file, or the dialect parser fails
\* on any statement, Parse returns an error and no raw statement, none either
\* for the statements before the failing one that were split and translated.
C17_ErrorReturnsNoStatements ==
    /\ [](parsePc = "error" => stmts = <<>>)
    /\ [][parsePc' = "error" => stmts' = <<>>]_vars
    /\ [][(parsePc = "splitting" /\ NextToken(content, lexIdx).Kind = "bad")
              => parsePc' = "error"]_vars

\* the dialect parser fails on the third statement, two raw statements made
C17_Witness ==
    /\ parsePc = "error"
    /\ Len(statements) = 3
    /\ stmtIdx = 3
    /\ stmts = <<>>

\* ---- C18 --------------------------------------------------------------------

\* C18: convertError maps nil to nil, and every other error of the dialect
\* parser, a single error with or without a position or a sequence of errors
\* of any length, to one error with the message "syntax error", the first
\* underlying message as its detail, and a line and a column that are the
\* dialect's 0-based ones plus 1, so at least 1.
C18_EveryErrorIsSyntaxError ==
    errOut.type # "idle" =>
        /\ err.type = "nil" => errOut.type = "nil"
        /\ err.type \in {"Error", "MultiError"} =>
              /\ errOut.type = "sqlerr.Error"
              /\ errOut.Message = "syntax error"
              /\ errOut.Line >= 1
              /\ errOut.Column >= 1
              /\ Len(err.errs) > 0 =>
                    /\ errOut.Err = err.errs[1].Message
                    /\ err.errs[1].hasPos =>
                          /\ errOut.Line = err.errs[1].Line + 1
                          /\ errOut.Column = err.errs[1].Column + 1

\* ---- C21: calls of Parse share nothing ---------------------------------------

\* what one call of Parse returns for the statements ss when it runs alone,
\* from the statement at i on with acc appended so far
RECURSIVE Alone(_, _, _)
Alone(ss, i, acc) ==
    IF i > Len(ss) THEN [pc |-> "returned", stmts |-> acc]
    ELSE IF ss[i].sql = 0 THEN [pc |-> "error", stmts |-> <<>>]
    ELSE LET r == convert(Statements[ss[i].sql], FreshTracker(ss[i].sqlStartPos))
         IN  IF r.st.panicked THEN [pc |-> "panicked", stmts |-> <<>>]
             ELSE IF r.n.kind = "TODO" THEN Alone(ss, i + 1, acc)
             ELSE Alone(ss, i + 1,
                        Append(acc, [Stmt |-> r.n, StmtLocation |-> ss[i].startPos,
                                     StmtLen |-> ss[i].endPos - ss[i].startPos]))

\* a call that is over has the outcome of the same call run alone
ReturnsAsAlone(c) ==
    calls[c].pc # "translating" =>
        LET alone == Alone(calls[c].statements, 1, <<>>)
        IN  /\ calls[c].pc = alone.pc
            /\ calls[c].stmts = alone.stmts

\* C21: two calls of Parse whose steps interleave in any order each return
\* what the call returns when it runs alone, and no step of a call of Parse
\* changes the catalog NewCatalog has returned.
C21_CallsShareNothing ==
    /\ [](\A c \in 1..2 : ReturnsAsAlone(c))
    /\ [](funcs = NewCatalog.Funcs)
    /\ [][calls' # calls => UNCHANGED schemaVars]_vars

\* the first call has returned its two raw statements while the second, on
\* another file, stands in the middle of its loop with one appended
C21_Witness ==
    /\ calls[1].pc = "returned" /\ Len(calls[1].stmts) = 2
    /\ calls[2].pc = "translating" /\ calls[2].stmtIdx = 2 /\ Len(calls[2].stmts) = 1
    /\ calls[1].statements # calls[2].statements

\* ---- C22: a call of Parse runs to completion ----------------------------------

\* the loop of splitStatements halts: the lexer only moves forward, and the
\* loop is left at the end of the file or at a lexer error
SplitterHalts ==
    /\ [][lexIdx' >= lexIdx]_vars
    /\ [][parsePc = "splitting" /\ parsePc' = "splitting" => lexIdx' > lexIdx]_vars
    /\ [](parsePc = "splitting" => lexIdx <= Len(content) + 1)
    /\ <>(parsePc # "splitting")

\* C22: for every file of finitely many tokens the loop of splitStatements
\* consumes each token at most once and halts at the first end of input or
\* lexer error, and Parse then returns (the raw statements or an error).
C22_ParseRunsToCompletion ==
    /\ SplitterHalts
    /\ <>(parsePc \in {"returned", "error"})

\* ---- C23: IsReservedKeyword --------------------------------------------------

\* C23: IsReservedKeyword(s) is what the keyword predicate of the dialect
\* lexer returns for s; it is true for SELECT, FROM, WHERE, CASE, WHEN, THEN,
\* ELSE, END, JOIN, UNNEST, INTERVAL, ARRAY, STRUCT, WITH and WINDOW, and false
\* for INSERT, UPDATE, DELETE, TABLE, INDEX, VIEW, QUALIFY, VALUES, OFFSET,
\* MATCHED, FIRST and LAST.
C23_ReservedIsLexerKeyword ==
    reserved # <<>> =>
        /\ reserved[1] = IsKeyword(word)
        /\ word \in {"SELECT", "FROM", "WHERE", "CASE", "WHEN", "THEN", "ELSE",
                     "END", "JOIN", "UNNEST", "INTERVAL", "ARRAY", "STRUCT",
                     "WITH", "WINDOW"} => reserved[1]
        /\ word \in {"INSERT", "UPDATE", "DELETE", "TABLE", "INDEX", "VIEW",
                     "QUALIFY", "VALUES", "OFFSET", "MATCHED", "FIRST", "LAST"}
               => ~reserved[1]

\* a reserved word written in lower case was found reserved
C23_Witness == word = "select" /\ reserved = <<TRUE>>

\* ---- C24: ExtractParameters --------------------------------------------------

\* C24: ExtractParameters returns one entry for every @name occurrence of the
\* tree, in the order of the text, a name written twice twice; the distinct
\* names of the entries are the names the statement uses.
C24_OneEntryPerOccurrence ==
    params # <<>> =>
        LET ps == params[1]
        IN  /\ Len(ps) = Cardinality(InParams(node))
            /\ \A i \in DOMAIN ps : <<ps[i].Position, ps[i].Name>> \in InParams(node)
            /\ \A i, j \in DOMAIN ps : i < j => ps[i].Position < ps[j].Position
            /\ {ps[i].Name : i \in DOMAIN ps} = {p[2] : p \in InParams(node)}

\* a statement that writes @a, @b and @a again gave three entries
C24_Witness ==
    /\ params # <<>>
    /\ Len(params[1]) = 3
    /\ <<params[1][1].Name, params[1][2].Name, params[1][3].Name>> = <<"a", "b", "a">>

\* ---- C25: the SET items of UPDATE -------------------------------------------

\* C25: the target list of the update node has one entry for every SET item,
\* in the order of the text, with the name of the column and the translated
\* value; an item whose value is the DEFAULT keyword has the string constant
\* "DEFAULT" for its value.
C25_OneTargetPerSetItem ==
    (translated /\ node.kind = "Update") =>
        /\ Len(out.TargetList.Items) = Len(node.Updates)
        /\ \A i \in DOMAIN node.Updates \cap DOMAIN out.TargetList.Items :
              LET item == node.Updates[i]
                  target == out.TargetList.Items[i]
              IN  /\ target.kind = "ResTarget"
                  /\ target.Name = <<item.Path[Len(item.Path)].Name>>
                  /\ target.Val = IF item.DefaultExpr.Default
                                  THEN A_Const(String("DEFAULT"))
                                  ELSE convert(item.DefaultExpr.Expr, converter).n

\* ---- C26: IF, IFNULL and NULLIF ---------------------------------------------

\* the names of the function calls of a translated tree
RECURSIVE OutFuncNames(_)
OutFuncNames(n) ==
    (IF n.kind = "FuncCall" THEN {n.Func.Name} ELSE {})
      \cup UNION {OutFuncNames(n[f]) : f \in OutFields(n) \ {"Func"}}
      \cup (IF n.kind = "List"
            THEN UNION {OutFuncNames(n.Items[i]) : i \in DOMAIN n.Items}
            ELSE {})

\* the function a call expression names, in lower case
CalledLower(e) ==
    IF e.kind = "CallExpr" /\ Len(e.Func.Idents) = 1
    THEN ToLower(e.Func.Idents[1].Name) ELSE ""

\* the case-when the claim gives for the conditional e, locations cleared;
\* the arguments are translated under the numbers the statement ended with
ExpectedCase(e) ==
    LET arg(x) == StripLoc(convert(x, converter).n)
    IN  CASE e.kind = "IfExpr" ->
                CaseExpr(Nil, <<CaseWhen(arg(e.Expr), arg(e.TrueResult), 0)>>,
                         arg(e.ElseResult), 0)
          [] CalledLower(e) = "ifnull" ->
                CaseExpr(Nil,
                         <<CaseWhen(NullTest(arg(e.Args[1].Expr), 1, 0),
                                    arg(e.Args[1].Expr), 0)>>,
                         arg(e.Args[2].Expr), 0)
          [] CalledLower(e) = "nullif" ->
                CaseExpr(Nil,
                         <<CaseWhen(A_Expr("AEXPR_OP", <<String("=")>>,
                                           arg(e.Args[1].Expr), arg(e.Args[2].Expr), 0),
                                    A_Const(Null), 0)>>,
                         arg(e.Args[1].Expr), 0)

IsConditional(e) ==
    e.kind = "IfExpr" \/ (CalledLower(e) \in {"ifnull", "nullif"} /\ Len(e.Args) = 2)

C27_SafeArithmeticKeepsType ==
    schemaPc = "returned" =>
        \A j \in 1..Len(funcs) :
            funcs[j].Name \in {<<"SAFE_ADD">>, <<"SAFE_SUBTRACT">>, <<"SAFE_MULTIPLY">>,
                               <<"SAFE_DIVIDE">>, <<"SAFE_NEGATE">>} =>
                /\ funcs[j].ReturnTypeNullable
                /\ Len(funcs[j].Args) >= 1
                /\ \A a \in DOMAIN funcs[j].Args :
                      /\ funcs[j].Args[a] = funcs[j].ReturnType
                      /\ funcs[j].ReturnType \in {"int64", "float64", "numeric"}

\* C29: in the catalog defaultSchema returns no two entries have the same
\* name and the same argument types.
C29_NoDuplicateOverload ==
    schemaPc = "returned" =>
        \A i, j \in 1..Len(funcs) :
            (i < j) => ~(funcs[i].Name = funcs[j].Name /\ funcs[i].Args = funcs[j].Args)

\* ---- C28: ALTER TABLE --------------------------------------------------------

\* the commands of a translated ALTER TABLE
Cmds == out.Cmds.Items

\* C28: ADD COLUMN gives one add-column command for every column, DROP COLUMN
\* one drop-column command for every name, ALTER COLUMN SET TYPE an
\* alter-column-type command, SET DEFAULT a set-default command, DROP DEFAULT
\* a drop-default command, which is not the drop-not-null command; any other
\* alteration gives a placeholder, and the statement is skipped.
C28_AlterTableDispatch ==
    (convPc \in {"appended", "skipped"} /\ node.kind = "AlterTable") =>
        LET alt == node.TableAlteration
        IN  CASE alt.kind = "AddColumn" ->
                    /\ out.kind = "AlterTableStmt"
                    /\ Len(Cmds) = Len(alt.Columns)
                    /\ \A i \in DOMAIN Cmds :
                          /\ Cmds[i].Subtype = "AT_AddColumn"
                          /\ Cmds[i].Def.Colname = ToLower(alt.Columns[i].Name.Name)
              [] alt.kind = "DropColumn" ->
                    /\ out.kind = "AlterTableStmt"
                    /\ Len(Cmds) = Len(alt.Names)
                    /\ \A i \in DOMAIN Cmds :
                          /\ Cmds[i].Subtype = "AT_DropColumn"
                          /\ Cmds[i].Name = <<ToLower(alt.Names[i].Name)>>
              [] alt.kind = "AlterColumn" ->
                    /\ out.kind = "AlterTableStmt"
                    /\ Len(Cmds) = 1
                    /\ alt.Alteration.kind = "AlterColumnSetType"
                          => Cmds[1].Subtype = "AT_AlterColumnType"
                    /\ alt.Alteration.kind = "AlterColumnSetDefault"
                          => Cmds[1].Subtype = "AT_ColumnDefault"
                    /\ alt.Alteration.kind = "AlterColumnDropDefault"
                          => Cmds[1].Subtype \notin
                                 {"AT_DropNotNull", "AT_AddColumn", "AT_DropColumn",
                                  "AT_AlterColumnType", "AT_ColumnDefault"}
              [] OTHER ->
                    /\ out.kind = "TODO"
                    /\ convPc = "skipped"

\* ---- C30: no parameter is dropped -------------------------------------------

\* the occurrence p of ExtractParameters stands in the translated tree as a
\* parameter reference at its position, numbered as its name is interned
Represented(p) ==
    \E r \in OutParamRefs(out) :
        /\ r[1] \in {p.Position, p.Position + positionOffset}
        /\ r[2] \in DOMAIN paramsByNum
        /\ paramsByNum[r[2]] = p.Name

\* C30: after the translation of a statement the names interned in its
\* tracker are the distinct names ExtractParameters returns for its AST, and
\* every @name occurrence is a parameter reference of the translated tree.
C30_NoParameterDropped ==
    convPc \in {"appended", "skipped"} =>
        LET ps == ExtractParameters(node)
        IN  /\ DOMAIN paramMap = {ps[i].Name : i \in DOMAIN ps}
            /\ \A i \in DOMAIN ps : Represented(ps[i])
====
